---- MODULE Spec2Model ----
(***************************************************************************)
(* Model of mentat-code-mini: the tool-use conversation loop               *)
(* (src/main.rs, ChatClient) and the file tools with their path validator  *)
(* (src/tools/*.rs).                                                       *)
(*                                                                         *)
(* Path strings are sequences of one-character strings, so that the        *)
(* component parsing of std::path and the substring test of write_file     *)
(* are computed on the text.  The filesystem is a function from locations  *)
(* (sequences of component names below "/") to nodes.                      *)
(*                                                                         *)
(* A local value that is used more than once is bound with Let and a       *)
(* LAMBDA instead of LET, which keeps the expression tree of an action     *)
(* linear in the size of the definitions it uses.                          *)
(***************************************************************************)
EXTENDS Integers, Sequences, FiniteSets, TLC

VARIABLES
  fs,            \* the filesystem: location -> node
  arg_path,      \* file-tool specification: the path string under test
  arg_content,   \* file-tool specification: the content to write
  last,          \* file-tool specification: the last operation and its result
  steps,         \* file-tool specification: operations applied so far
  arg_name,      \* registry specification: the tool name under test
  arg_input,     \* registry specification: the input value under test
  settings,      \* settings specification: the Settings under validation
  process_cwd,   \* root specification: the working directory of the process
  registry,      \* tools specification: the HashMap of a ToolRegistry
  client,        \* ChatClient.url, .model and .tool_registry
  messages,      \* ChatClient.messages
  pc,            \* position of the session: Idle, RequestInFlight, Dispatching, Panicked
  result,        \* send_message: the parsed response content (result.content)
  idx,           \* send_message: index of the next block of the for loop
  tool_results,  \* send_message: local tool_results
  has_tool_use,  \* send_message: local has_tool_use
  preHist,       \* history: messages when the running/last send_message was called
  outcome,       \* history: how the last send_message ended, until the next call or clear
  round,         \* history: number of requests issued by the running/last send_message
  calls          \* history: number of model-service requests issued so far

vars == <<fs, arg_path, arg_content, last, steps, arg_name, arg_input, settings,
          process_cwd, registry,
          client, messages, pc, result, idx, tool_results, has_tool_use, preHist,
          outcome, round, calls>>

fsVars == <<fs, arg_path, arg_content, last, steps, arg_name, arg_input, settings,
            process_cwd, registry>>
sessVars == <<client, messages, pc, result, idx, tool_results, has_tool_use,
              preHist, outcome, round, calls>>

\* v bound to the parameter of F
Let(v, F(_)) == F(v)

---------------------------------------------------------------------------
(* Bounds *)

MaxLen == 2            \* longest generated path string
MaxSteps == 2          \* file-tool operations per behaviour
MaxSymlinkHops == 4    \* symlinks followed by one resolution before ELOOP
MaxCalls == 2          \* model-service requests per behaviour
MaxBlocks == 2         \* blocks per response

---------------------------------------------------------------------------
(* Strings and std::path *)

Alphabet == {"/", ".", "a", "l"}

Dot == <<".">>
DotDot == <<".", ".">>

RECURSIVE SegAcc(_, _, _, _)
SegAcc(s, i, cur, acc) ==
  IF i > Len(s) THEN Append(acc, cur)
  ELSE IF s[i] = "/" THEN SegAcc(s, i + 1, <<>>, Append(acc, cur))
  ELSE SegAcc(s, i + 1, Append(cur, s[i]), acc)

\* the text between separators, empty segments included
Segments(s) == SegAcc(s, 1, <<>>, <<>>)

has_root(s) == Len(s) > 0 /\ s[1] = "/"

is_absolute(s) == has_root(s)

\* the component a segment stands for; "none" for a segment that is skipped
ComponentOf(g, first, rooted) ==
  IF g = <<>> THEN [t |-> "none", n |-> g]
  ELSE IF g = Dot THEN [t |-> IF first /\ ~rooted THEN "CurDir" ELSE "none", n |-> g]
  ELSE IF g = DotDot THEN [t |-> "ParentDir", n |-> g]
  ELSE [t |-> "Normal", n |-> g]

RECURSIVE CompAcc(_, _, _, _)
CompAcc(segs, i, rooted, acc) ==
  IF i > Len(segs) THEN acc
  ELSE Let(ComponentOf(segs[i], i = 1, rooted),
           LAMBDA c : CompAcc(segs, i + 1, rooted,
                              IF c.t = "none" THEN acc ELSE Append(acc, c)))

\* Path::components (Unix)
components(s) ==
  CompAcc(Segments(s), 1, has_root(s),
          IF has_root(s) THEN <<[t |-> "RootDir", n |-> <<>>]>> ELSE <<>>)

RECURSIVE PathOfAcc(_, _, _)
PathOfAcc(cs, i, acc) ==
  IF i > Len(cs) THEN acc
  ELSE IF cs[i].t = "RootDir" THEN PathOfAcc(cs, i + 1, <<"/">>)
  ELSE PathOfAcc(cs, i + 1,
                 IF acc = <<>> \/ acc[Len(acc)] = "/" THEN acc \o cs[i].n
                 ELSE acc \o <<"/">> \o cs[i].n)

\* the path text of a component sequence
PathOf(cs) == PathOfAcc(cs, 1, <<>>)

None == [some |-> FALSE, v |-> <<>>]
Some(x) == [some |-> TRUE, v |-> x]

\* Path::parent
parent(s) ==
  Let(components(s),
      LAMBDA cs :
        IF cs # <<>> /\ cs[Len(cs)].t \in {"Normal", "CurDir", "ParentDir"}
        THEN Some(PathOf(SubSeq(cs, 1, Len(cs) - 1)))
        ELSE None)

\* Path::file_name
file_name(s) ==
  Let(components(s),
      LAMBDA cs :
        IF cs # <<>> /\ cs[Len(cs)].t = "Normal" THEN Some(cs[Len(cs)].n) ELSE None)

\* Path::join
join(base, rel) ==
  IF is_absolute(rel) THEN rel
  ELSE IF base # <<>> /\ base[Len(base)] # "/" THEN base \o <<"/">> \o rel
  ELSE base \o rel

IsPrefix(p, q) == Len(p) <= Len(q) /\ SubSeq(q, 1, Len(p)) = p

\* Path::starts_with: whole components
starts_with(path, base) == IsPrefix(components(base), components(path))

\* str::contains("..")
contains_dotdot(s) == \E i \in 1..(Len(s) - 1) : s[i] = "." /\ s[i + 1] = "."

---------------------------------------------------------------------------
(* The filesystem *)

Dir == [k |-> "dir", c |-> "", t |-> <<>>]
File(c) == [k |-> "file", c |-> c, t |-> <<>>]
Link(t) == [k |-> "link", c |-> "", t |-> t]

\* the working directory of the process, the workspace root
cwd == <<"/", "w">>

IsDir(f, loc) == loc = <<>> \/ (loc \in DOMAIN f /\ f[loc].k = "dir")

FailWith(e) == [ok |-> FALSE, loc |-> <<>>, err |-> e]
Found(loc) == [ok |-> TRUE, loc |-> loc, err |-> "none"]

UpFrom(cur) == IF cur = <<>> THEN cur ELSE SubSeq(cur, 1, Len(cur) - 1)

\* where the lookup of a symlink target starts
LinkStart(t, cur) == IF has_root(t) THEN <<>> ELSE cur

RECURSIVE Walk(_, _, _, _)
\* path resolution from location cur over the segments segs, following symlinks
Walk(f, cur, segs, fuel) ==
  IF segs = <<>> THEN Found(cur)
  ELSE IF ~IsDir(f, cur) THEN FailWith("ENOTDIR")
  ELSE IF Head(segs) = <<>> \/ Head(segs) = Dot THEN Walk(f, cur, Tail(segs), fuel)
  ELSE IF Head(segs) = DotDot THEN Walk(f, UpFrom(cur), Tail(segs), fuel)
  ELSE IF Append(cur, Head(segs)) \notin DOMAIN f THEN FailWith("ENOENT")
  ELSE IF f[Append(cur, Head(segs))].k # "link"
    THEN Walk(f, Append(cur, Head(segs)), Tail(segs), fuel)
  ELSE IF fuel = 0 THEN FailWith("ELOOP")
  ELSE IF f[Append(cur, Head(segs))].t = <<>> THEN FailWith("ENOENT")
  ELSE Walk(f, LinkStart(f[Append(cur, Head(segs))].t, cur),
            Segments(f[Append(cur, Head(segs))].t) \o Tail(segs), fuel - 1)

\* the directory a lookup of s starts from: "/" or the working directory
StartOf(f, s) ==
  IF has_root(s) THEN Found(<<>>)
  ELSE Let(Walk(f, <<>>, Segments(cwd), MaxSymlinkHops),
           LAMBDA c : IF ~c.ok \/ ~IsDir(f, c.loc) THEN FailWith("ENOENT") ELSE c)

\* stat(2): the location a path string names, symlinks followed
Stat(f, s) ==
  Let(StartOf(f, s),
      LAMBDA start :
        IF s = <<>> \/ ~start.ok THEN FailWith("ENOENT")
        ELSE Walk(f, start.loc, Segments(s), MaxSymlinkHops))

\* Path::exists
exists(f, s) == Stat(f, s).ok

\* Path::is_dir
is_dir(f, s) == Let(Stat(f, s), LAMBDA r : r.ok /\ IsDir(f, r.loc))

RECURSIVE LocPath(_, _, _)
LocPath(loc, i, acc) ==
  IF i > Len(loc) THEN (IF acc = <<>> THEN <<"/">> ELSE acc)
  ELSE LocPath(loc, i + 1, acc \o <<"/">> \o loc[i])

\* the absolute, symlink-free path text of a location
PathOfLoc(loc) == LocPath(loc, 1, <<>>)

\* Path::canonicalize (realpath)
canonicalize(f, s) ==
  Let(Stat(f, s),
      LAMBDA r : IF r.ok THEN [ok |-> TRUE, path |-> PathOfLoc(r.loc)]
                 ELSE [ok |-> FALSE, path |-> <<>>])

---------------------------------------------------------------------------
(* Filesystem mutation: mkdir, create_dir_all, open for writing *)

RECURSIVE StripTrailing(_)
\* the segments without trailing empty ones (trailing separators)
StripTrailing(segs) ==
  IF segs # <<>> /\ segs[Len(segs)] = <<>>
  THEN StripTrailing(SubSeq(segs, 1, Len(segs) - 1))
  ELSE segs

MkFail(f, e) == [ok |-> FALSE, err |-> e, fs |-> f]

\* the last step of mkdir: d is the resolved parent directory, nm the new name
MkdirIn(f, d, nm) ==
  IF ~d.ok THEN MkFail(f, IF d.err = "ENOENT" THEN "NotFound" ELSE "Other")
  ELSE IF ~IsDir(f, d.loc) THEN MkFail(f, "Other")
  ELSE IF nm = Dot \/ nm = DotDot \/ Append(d.loc, nm) \in DOMAIN f
    THEN MkFail(f, "AlreadyExists")
  ELSE [ok |-> TRUE, err |-> "none", fs |-> (Append(d.loc, nm) :> Dir) @@ f]

\* mkdir(2): creates the last component in the directory the others resolve to
Mkdir(f, s) ==
  Let(StripTrailing(Segments(s)),
      LAMBDA segs :
        Let(StartOf(f, s),
            LAMBDA start :
              IF s = <<>> \/ ~start.ok THEN MkFail(f, "NotFound")
              ELSE IF segs = <<>> THEN MkFail(f, "AlreadyExists")
              ELSE MkdirIn(f, Walk(f, start.loc, SubSeq(segs, 1, Len(segs) - 1),
                                   MaxSymlinkHops),
                           segs[Len(segs)])))

\* the outcome of create_dir_all when mkdir failed with m on filesystem g
AfterMkdir(g, s, m) ==
  IF m.ok THEN [ok |-> TRUE, fs |-> m.fs] ELSE [ok |-> is_dir(g, s), fs |-> g]

RECURSIVE create_dir_all(_, _)
\* fs::create_dir_all
create_dir_all(f, s) ==
  IF components(s) = <<>> THEN [ok |-> TRUE, fs |-> f]
  ELSE Let(Mkdir(f, s),
           LAMBDA m :
             IF m.ok \/ m.err # "NotFound" THEN AfterMkdir(f, s, m)
             ELSE Let(parent(s),
                      LAMBDA p :
                        IF ~p.some THEN [ok |-> FALSE, fs |-> f]
                        ELSE Let(create_dir_all(f, p.v),
                                 LAMBDA r :
                                   IF ~r.ok THEN r
                                   ELSE AfterMkdir(r.fs, s, Mkdir(r.fs, s)))))

RECURSIVE OpenAt(_, _, _, _)

\* the last step of open: d is the resolved parent directory, nm the name
OpenIn(f, d, nm, fuel) ==
  IF ~d.ok THEN d
  ELSE IF ~IsDir(f, d.loc) THEN FailWith("ENOTDIR")
  ELSE IF Append(d.loc, nm) \notin DOMAIN f THEN Found(Append(d.loc, nm))
  ELSE IF f[Append(d.loc, nm)].k = "dir" THEN FailWith("EISDIR")
  ELSE IF f[Append(d.loc, nm)].k = "file" THEN Found(Append(d.loc, nm))
  ELSE IF fuel = 0 THEN FailWith("ELOOP")
  ELSE IF f[Append(d.loc, nm)].t = <<>> THEN FailWith("ENOENT")
  ELSE OpenAt(f, LinkStart(f[Append(d.loc, nm)].t, d.loc),
              Segments(f[Append(d.loc, nm)].t), fuel - 1)

\* open(2) with O_WRONLY|O_CREAT|O_TRUNC: the location of the file that is
\* created or truncated; a symlink in the last component is followed
OpenAt(f, start, segs, fuel) ==
  IF segs = <<>> \/ segs[Len(segs)] \in {<<>>, Dot, DotDot} THEN FailWith("EISDIR")
  ELSE OpenIn(f, Walk(f, start, SubSeq(segs, 1, Len(segs) - 1), fuel),
              segs[Len(segs)], fuel)

\* the file a write to the path string s creates or truncates
OpenForWrite(f, s) ==
  Let(StartOf(f, s),
      LAMBDA start :
        IF s = <<>> \/ ~start.ok THEN FailWith("ENOENT")
        ELSE OpenAt(f, start.loc, Segments(s), MaxSymlinkHops))

\* fs::write
fs_write(f, s, c) ==
  Let(OpenForWrite(f, s),
      LAMBDA o : IF o.ok THEN [ok |-> TRUE, fs |-> (o.loc :> File(c)) @@ f]
                 ELSE [ok |-> FALSE, fs |-> f])

\* fs::read_to_string
fs_read_to_string(f, s) ==
  Let(Stat(f, s),
      LAMBDA r : IF r.ok /\ r.loc # <<>> /\ f[r.loc].k = "file"
                 THEN [ok |-> TRUE, content |-> f[r.loc].c]
                 ELSE [ok |-> FALSE, content |-> ""])

---------------------------------------------------------------------------
(* PathValidator (src/tools/path_validator.rs) *)

VErr(kind, arg, touched) ==
  [kind |-> kind, path |-> <<>>, arg |-> arg, touched |-> touched]
VOk(path) == [kind |-> "Ok", path |-> path, arg |-> <<>>, touched |-> TRUE]

\* variant: only the first component is tested
contains_parent_dir_first(path) ==
  Let(components(path), LAMBDA cs : cs # <<>> /\ cs[1].t = "ParentDir")

contains_parent_dir(path) ==
  Let(components(path), LAMBDA cs : \E i \in 1..Len(cs) : cs[i].t = "ParentDir")

\* Option::unwrap_or(Path::new(""))
unwrap_or_empty(o) == IF o.some THEN o.v ELSE <<>>

\* the first arm of canonicalize_nonexistent_path: the parent exists
canonical_parent_join(f, p, n) ==
  Let(canonicalize(f, p),
      LAMBDA cp : IF cp.ok THEN [ok |-> TRUE, path |-> join(cp.path, n)]
                  ELSE [ok |-> FALSE, path |-> <<>>])

canonicalize_nonexistent_path(f, root, full_path, requested) ==
  Let(parent(full_path),
      LAMBDA p :
        Let(file_name(full_path),
            LAMBDA n :
              IF ~(p.some /\ n.some) THEN [ok |-> TRUE, path |-> full_path]
              ELSE IF exists(f, p.v) THEN canonical_parent_join(f, p.v, n.v)
              ELSE [ok |-> TRUE,
                    path |-> join(join(root, unwrap_or_empty(parent(requested))), n.v)]))

canonicalize_path(f, root, full_path, requested) ==
  IF exists(f, full_path) THEN canonicalize(f, full_path)
  ELSE canonicalize_nonexistent_path(f, root, full_path, requested)

get_canonical_workspace(f, root) == canonicalize(f, root)

RECURSIVE find_nearest_existing_ancestor(_, _, _)
find_nearest_existing_ancestor(f, root, current) ==
  IF exists(f, current) THEN current
  ELSE Let(parent(current),
           LAMBDA p : IF p.some /\ p.v # <<>>
                      THEN find_nearest_existing_ancestor(f, root, p.v)
                      ELSE root)

\* variant: a path that does not exist is never inside the workspace
is_within_workspace_existing(f, root, path, canonical_workspace) ==
  exists(f, path) /\ starts_with(path, canonical_workspace)

is_within_workspace(f, root, path, canonical_workspace) ==
  IF exists(f, path) THEN starts_with(path, canonical_workspace)
  ELSE Let(canonicalize(f, find_nearest_existing_ancestor(f, root, path)),
           LAMBDA c : c.ok /\ starts_with(c.path, canonical_workspace))

\* steps 3 to 5 of validate_path
validate_joined(f, root, path, full_path) ==
  Let(canonicalize_path(f, root, full_path, path),
      LAMBDA canonical_path :
        Let(get_canonical_workspace(f, root),
            LAMBDA canonical_workspace :
              IF ~canonical_path.ok THEN VErr("CanonicalizationFailed", <<>>, TRUE)
              ELSE IF ~canonical_workspace.ok THEN VErr("WorkspaceDirError", <<>>, TRUE)
              ELSE IF ~is_within_workspace(f, root, canonical_path.path,
                                           canonical_workspace.path)
                THEN VErr("PathTraversalDetected", <<>>, TRUE)
              ELSE VOk(full_path)))

\* variant: the parent-directory test comes before the absolute-path test
validate_path_traversal_first(f, root, path) ==
  IF contains_parent_dir(path) THEN VErr("PathTraversalDetected", <<>>, FALSE)
  ELSE IF is_absolute(path) THEN VErr("AbsolutePathNotAllowed", <<>>, FALSE)
  ELSE validate_joined(f, root, path, join(root, path))

\* the field touched records whether the filesystem was consulted
validate_path(f, root, path) ==
  IF is_absolute(path) THEN VErr("AbsolutePathNotAllowed", <<>>, FALSE)
  ELSE IF contains_parent_dir(path) THEN VErr("PathTraversalDetected", <<>>, FALSE)
  ELSE validate_joined(f, root, path, join(root, path))

\* variant: the existence test is made on the requested string, before validation
validate_for_read_exists_first(f, root, path) ==
  IF ~exists(f, join(root, path)) THEN VErr("PathNotFound", path, TRUE)
  ELSE validate_path(f, root, path)

validate_for_read(f, root, path) ==
  Let(validate_path(f, root, path),
      LAMBDA validated :
        IF validated.kind # "Ok" THEN validated
        ELSE IF ~exists(f, validated.path) THEN VErr("PathNotFound", path, TRUE)
        ELSE validated)

validate_for_write(f, root, path) == validate_path(f, root, path)

---------------------------------------------------------------------------
(* File tools (src/tools/read_file.rs, src/tools/write_file.rs) *)

ReadOut(success, content, error) ==
  [has_success |-> TRUE, success |-> success, content |-> content,
   message |-> "", error |-> error]
WriteOut(success, message, error) ==
  [has_success |-> TRUE, success |-> success, content |-> "",
   message |-> message, error |-> error]

\* lines 92-104 of read_file.rs
read_validated(f, validated_path) ==
  Let(fs_read_to_string(f, validated_path),
      LAMBDA r : IF r.ok THEN ReadOut(TRUE, r.content, "")
                 ELSE ReadOut(FALSE, "", "Failed to read file"))

\* execute_read_file where std::env::current_dir() returns dir:
\* PathValidator::new takes that directory, which must still exist
execute_read_file_at(f, dir, file_path) ==
  IF ~exists(f, dir) THEN ReadOut(FALSE, "", "Failed to initialize path validator")
  ELSE Let(validate_for_read(f, dir, file_path),
           LAMBDA v : IF v.kind # "Ok" THEN ReadOut(FALSE, "", v.kind)
                      ELSE read_validated(f, v.path))

\* execute_read_file in a process that is still in the directory it
\* started in
execute_read_file(f, file_path) == execute_read_file_at(f, cwd, file_path)

\* lines 84-95 of write_file.rs: the parent directory is created
ensure_parent(f, p) ==
  IF p.some /\ p.v # <<>> THEN create_dir_all(f, p.v) ELSE [ok |-> TRUE, fs |-> f]

\* lines 97-113 of write_file.rs
write_content(f, file_path, content) ==
  Let(fs_write(f, file_path, content),
      LAMBDA w :
        IF w.ok THEN [out |-> WriteOut(TRUE, "Successfully wrote", ""), fs |-> w.fs]
        ELSE [out |-> WriteOut(FALSE, "", "Failed to write file"), fs |-> w.fs])

\* the result and the filesystem it leaves
execute_write_file(f, file_path, content) ==
  IF contains_dotdot(file_path)
  THEN [out |-> WriteOut(FALSE, "", "Path traversal not allowed"), fs |-> f]
  ELSE Let(ensure_parent(f, parent(file_path)),
           LAMBDA d :
             IF ~d.ok
             THEN [out |-> WriteOut(FALSE, "", "Failed to create directory"), fs |-> d.fs]
             ELSE write_content(d.fs, file_path, content))

---------------------------------------------------------------------------
(* JSON values given to the tools: names and inputs *)

\* a string-valued field, a missing field, a field of another JSON type
Str(x) == [j |-> "str", s |-> x]
Absent == [j |-> "absent", s |-> ""]
NotAString == [j |-> "other", s |-> ""]

\* a tool name is the sequence of its characters; a name field that is
\* missing or not a string
NameStr(n) == [j |-> "str", s |-> n]
NoName == [j |-> "absent", s |-> <<>>]
read_file_name == <<"r", "e", "a", "d", "_", "f", "i", "l", "e">>
write_file_name ==
  <<"w", "r", "i", "t", "e", "_", "f", "i", "l", "e">>
nope_name == <<"n", "o", "p", "e">>

\* the input of a tool_use block: an object with optional file_path and
\* content, an array of the same values by position, null, a value of
\* another type, or no input field
WrongTypePath == [j |-> "other", s |-> <<>>]
NoPath == [j |-> "absent", s |-> <<>>]
InputObj(fp, c) == [j |-> "obj", file_path |-> fp, content |-> c]
InputArr(fp, c) == [j |-> "arr", file_path |-> fp, content |-> c]
InputNull == [j |-> "null", file_path |-> NoPath, content |-> Absent]
InputScalar == [j |-> "other", file_path |-> NoPath, content |-> Absent]
InputAbsent == [j |-> "absent", file_path |-> NoPath, content |-> Absent]

\* ToolRegistry::with_builtins
RegisteredTools == {read_file_name, write_file_name}

\* a tool: the name its type returns and the type that implements it
ToolOf(name, impl) == [name |-> name, impl |-> impl]

ReadFileTool == ToolOf(read_file_name, "builtin")
WriteFileTool == ToolOf(write_file_name, "builtin")

\* HashMap::new
HashMap_new == [n \in {} |-> ToolOf(n, "")]

\* HashMap::insert: the value of an equal key is replaced
HashMap_insert(m, k, v) ==
  [n \in DOMAIN m \cup {k} |-> IF n = k THEN v ELSE m[n]]

\* variant: the value of an equal key is kept
register_keep_first(m, tool) ==
  IF tool.name \in DOMAIN m THEN m ELSE HashMap_insert(m, tool.name, tool)

\* ToolRegistry::register
register(m, tool) == HashMap_insert(m, tool.name, tool)

\* ToolRegistry::with_builtins
with_builtins == register(register(HashMap_new, ReadFileTool), WriteFileTool)

\* ToolRegistry::len
len(m) == Cardinality(DOMAIN m)

\* the orders in which a HashMap may be iterated
Orderings(S) ==
  { q \in [1..Cardinality(S) -> S] :
      \A i, j \in 1..Cardinality(S) : q[i] = q[j] => i = j }

\* Tool::definition: the advertisement of a tool
definition(tool) == [name |-> tool.name, by |-> tool.impl]

\* ToolRegistry::tool_names, the keys iterated in the order q
tool_names(m, q) == [i \in 1..Len(q) |-> q[i]]

\* ToolRegistry::definitions, the values iterated in the order q
definitions(m, q) == [i \in 1..Len(q) |-> definition(m[q[i]])]

---------------------------------------------------------------------------
(* Settings (src/config.rs) *)

\* a text by its bytes: runs of n characters of w bytes each
Ascii(n) == <<[w |-> 1, n |-> n]>>

RECURSIVE ByteLenFrom(_, _)
ByteLenFrom(t, i) ==
  IF i > Len(t) THEN 0 ELSE t[i].w * t[i].n + ByteLenFrom(t, i + 1)

\* str::len, in bytes
ByteLen(t) == ByteLenFrom(t, 1)

RECURSIVE CharLenFrom(_, _)
CharLenFrom(t, i) ==
  IF i > Len(t) THEN 0 ELSE t[i].n + CharLenFrom(t, i + 1)

\* str::chars().count()
CharLen(t) == CharLenFrom(t, 1)

\* the shortest api_key.len() that is accepted
MinKeyLen == 10

\* URL texts, character by character
HttpScheme == <<"h", "t", "t", "p", ":", "/", "/">>
HttpsScheme == <<"h", "t", "t", "p", "s", ":", "/", "/">>
Socks5Scheme == <<"s", "o", "c", "k", "s", "5", ":", "/", "/">>

\* str::starts_with
str_starts_with(t, prefix) == IsPrefix(prefix, t)

Settings(api_key, base_url, https_proxy) ==
  [api_key |-> api_key, base_url |-> base_url, https_proxy |-> https_proxy]

ValidationError(msg) == [ok |-> FALSE, err |-> msg]
ValidationOk == [ok |-> TRUE, err |-> "none"]

\* the proxy test of validate (lines 100-111)
proxy_refused(p) ==
  /\ p.some
  /\ p.v # <<>>
  /\ ~str_starts_with(p.v, HttpScheme)
  /\ ~str_starts_with(p.v, HttpsScheme)
  /\ ~str_starts_with(p.v, Socks5Scheme)

\* variant: the base URL is looked at before the API key
validate_url_first(st) ==
  IF st.base_url = <<>> THEN ValidationError("base_url_empty")
  ELSE IF ~str_starts_with(st.base_url, HttpScheme)
          /\ ~str_starts_with(st.base_url, HttpsScheme)
  THEN ValidationError("base_url_scheme")
  ELSE IF ByteLen(st.api_key) = 0 THEN ValidationError("api_key_empty")
  ELSE IF ByteLen(st.api_key) < MinKeyLen THEN ValidationError("api_key_format")
  ELSE IF proxy_refused(st.https_proxy) THEN ValidationError("proxy_format")
  ELSE ValidationOk

\* Settings::validate
validate(st) ==
  IF ByteLen(st.api_key) = 0 THEN ValidationError("api_key_empty")
  ELSE IF ByteLen(st.api_key) < MinKeyLen THEN ValidationError("api_key_format")
  ELSE IF st.base_url = <<>> THEN ValidationError("base_url_empty")
  ELSE IF ~str_starts_with(st.base_url, HttpScheme)
          /\ ~str_starts_with(st.base_url, HttpsScheme)
  THEN ValidationError("base_url_scheme")
  ELSE IF proxy_refused(st.https_proxy) THEN ValidationError("proxy_format")
  ELSE ValidationOk

\* the settings a session is built from
SessionSettings ==
  Settings(Ascii(19), HttpsScheme \o <<"h">>, None)

---------------------------------------------------------------------------
(* The file-tool specification: one path string and one content are drawn, *)
(* and the validators and the tools are applied to them                    *)

W == <<"w">>
O == <<"o">>
A == <<"a">>
L == <<"l">>

\* outside the workspace /w: the directory /o with the file /o/a
Outside == (<<O>> :> Dir) @@ (<<O, A>> :> File("s"))

\* what the name a is inside the workspace
AChoices ==
  { <<>>,
    (<<W, A>> :> File("x")),
    (<<W, A>> :> Dir),
    (<<W, A>> :> Dir) @@ (<<W, A, A>> :> File("x")) }

\* what the name l is inside the workspace: nothing, or a symlink to a
\* directory outside, a file outside, a missing name outside, a name
\* inside (relative and absolute), or itself
LChoices ==
  { <<>>,
    (<<W, L>> :> Link(<<"/", "o">>)),
    (<<W, L>> :> Link(<<"/", "o", "/", "a">>)),
    (<<W, L>> :> Link(<<"/", "o", "/", "l">>)),
    (<<W, L>> :> Link(<<"a">>)),
    (<<W, L>> :> Link(<<"/", "w", "/", "a">>)),
    (<<W, L>> :> Link(<<"l">>)) }

\* the filesystems a behaviour starts from; in the last one the workspace
\* directory is gone
FSConfigs ==
  { (<<W>> :> Dir) @@ Outside @@ a @@ l : a \in AChoices, l \in LChoices }
  \cup { Outside }

\* longer path strings: ".." before, between and after names, names that
\* contain "..", paths through the symlink, absolute paths, a path that
\* ends in a separator
ExtraPaths ==
  { <<"a", "/", ".", ".", "/", "a">>,
    <<".", ".", "/", "a">>,
    <<"a", "/", ".", ".">>,
    <<"l", "/", ".", ".">>,
    <<"/", ".", ".">>,
    <<"a", ".", ".", "a">>,
    <<".", ".", "a">>,
    <<"a", "/", "a">>,
    <<"a", "/", "l">>,
    <<"l", "/", "a">>,
    <<"a", "/", "a", "/", "a">>,
    <<"l", "/", "a", "/", "a">>,
    <<"/", "o", "/", "a">>,
    <<"/", "w", "/", "a">>,
    <<"a", "/", "a", "/">> }

PathStrings == (UNION { [1..n -> Alphabet] : n \in 0..MaxLen }) \cup ExtraPaths

Contents == {"", "y"}

NoOp == [op |-> "none", res |-> VErr("none", <<>>, FALSE), pre |-> <<>>]

\* the fields of the client that ChatClient::new sets from the settings
Client == [url |-> "base_url/v1/messages", model |-> "model",
           tool_registry |-> RegisteredTools]

\* the session at rest, as ChatClient::new leaves it
SessionInit ==
  /\ client = Client
  /\ messages = <<>>
  /\ pc = "Idle"
  /\ result = <<>>
  /\ idx = 0
  /\ tool_results = <<>>
  /\ has_tool_use = FALSE
  /\ preHist = <<>>
  /\ outcome = "none"
  /\ round = 0
  /\ calls = 0

InitFS ==
  /\ fs \in FSConfigs
  /\ arg_path \in PathStrings
  /\ arg_content \in Contents
  /\ last = NoOp
  /\ steps = 0
  /\ arg_name = <<>>
  /\ arg_input = InputNull
  /\ settings = SessionSettings
  /\ process_cwd = cwd
  /\ registry = with_builtins
  /\ SessionInit

ValidateForRead ==
  /\ steps < MaxSteps
  /\ last' = [op |-> "validate_for_read",
              res |-> validate_for_read(fs, cwd, arg_path), pre |-> fs]
  /\ steps' = steps + 1
  /\ UNCHANGED <<fs, arg_path, arg_content, arg_name, arg_input, settings, process_cwd, registry>>
  /\ UNCHANGED sessVars

ValidateForWrite ==
  /\ steps < MaxSteps
  /\ last' = [op |-> "validate_for_write",
              res |-> validate_for_write(fs, cwd, arg_path), pre |-> fs]
  /\ steps' = steps + 1
  /\ UNCHANGED <<fs, arg_path, arg_content, arg_name, arg_input, settings, process_cwd, registry>>
  /\ UNCHANGED sessVars

ExecReadFile ==
  /\ steps < MaxSteps
  /\ last' = [op |-> "read_file", res |-> execute_read_file(fs, arg_path), pre |-> fs]
  /\ steps' = steps + 1
  /\ UNCHANGED <<fs, arg_path, arg_content, arg_name, arg_input, settings, process_cwd, registry>>
  /\ UNCHANGED sessVars

ExecWriteFile ==
  /\ steps < MaxSteps
  /\ Let(execute_write_file(fs, arg_path, arg_content),
         LAMBDA r : /\ last' = [op |-> "write_file", res |-> r.out, pre |-> fs]
                    /\ fs' = r.fs)
  /\ steps' = steps + 1
  /\ UNCHANGED <<arg_path, arg_content, arg_name, arg_input, settings, process_cwd, registry>>
  /\ UNCHANGED sessVars

NextFS == ValidateForRead \/ ValidateForWrite \/ ExecReadFile \/ ExecWriteFile

SpecFS == InitFS /\ [][NextFS]_vars

---------------------------------------------------------------------------
(* Properties of the path validator and the file tools (SpecFS) *)

IsValidation == last.op \in {"validate_for_read", "validate_for_write"}

\* some text between separators is exactly ".."
HasParentSegment(s) == \E i \in 1..Len(Segments(s)) : Segments(s)[i] = DotDot

\* the location lies in the canonical workspace directory of filesystem f
InsideWorkspace(f, loc) ==
  Let(Stat(f, cwd), LAMBDA ws : ws.ok /\ IsPrefix(ws.loc, loc))

\* the object a read of p opens, or a write to p creates or truncates
TargetOf(f, op, p) ==
  IF op = "validate_for_read" THEN Stat(f, p) ELSE OpenForWrite(f, p)

\* C5: whenever validate_for_read or validate_for_write accepts a relative
\* path, the object that a read of the returned path opens, or that a write
\* to it creates or modifies, lies inside the canonical workspace root; a
\* path whose object lies outside gets PathTraversalDetected.
C5_Claim ==
  (IsValidation /\ ~is_absolute(arg_path)) =>
    Let(TargetOf(fs, last.op, join(cwd, arg_path)),
        LAMBDA tgt :
          (tgt.ok /\ ~InsideWorkspace(fs, tgt.loc)) =>
            last.res.kind = "PathTraversalDetected")

\* C6: write_file creates a directory or writes a file only for a path
\* validate_for_write accepts: for an absolute path, a path with a ".."
\* component or a path escaping through a symlink it returns success=false
\* and leaves the filesystem unchanged.
C6_Claim ==
  (last.op = "write_file"
     /\ (\/ is_absolute(arg_path)
         \/ HasParentSegment(arg_path)
         \/ validate_for_write(last.pre, cwd, arg_path).kind # "Ok")) =>
    (~last.res.success /\ fs = last.pre)

\* C7: for every relative path with a ".." component, at any position and
\* whatever exists on disk, both validators return PathTraversalDetected.
C7_ParentDirRejected ==
  (IsValidation /\ ~is_absolute(arg_path) /\ HasParentSegment(arg_path)) =>
    last.res.kind = "PathTraversalDetected"

C7_Witness ==
  /\ last.op = "validate_for_write"
  /\ arg_path = <<"a", "/", ".", ".", "/", "a">>
  /\ exists(fs, <<"/", "w", "/", "a">>)
  /\ last.res.kind = "PathTraversalDetected"

\* C8: for every absolute path both validators return
\* AbsolutePathNotAllowed without consulting the filesystem, also when the
\* path has a ".." component or the workspace root cannot be canonicalized.
C8_AbsoluteRejectedFirst ==
  (IsValidation /\ Len(arg_path) > 0 /\ arg_path[1] = "/") =>
    (last.res.kind = "AbsolutePathNotAllowed" /\ ~last.res.touched)

C8_Witness ==
  /\ last.op = "validate_for_read"
  /\ arg_path = <<"/", ".", ".">>
  /\ ~exists(fs, cwd)
  /\ last.res.kind = "AbsolutePathNotAllowed"

\* the longest existing prefix of the joined path, found independently of
\* the validator: the first existing path among the path and its parents
RECURSIVE NearestExisting(_, _)
NearestExisting(f, s) ==
  IF exists(f, s) THEN s
  ELSE Let(parent(s), LAMBDA p : IF p.some THEN NearestExisting(f, p.v) ELSE s)

\* The case of C9: validate_for_read of a relative path without ".."
\* component that does not exist and whose nearest existing ancestor
\* canonicalizes inside the workspace root.
C9_Precondition ==
  /\ last.op = "validate_for_read"
  /\ ~is_absolute(arg_path)
  /\ ~HasParentSegment(arg_path)
  /\ ~exists(fs, join(cwd, arg_path))
  /\ Let(Stat(fs, NearestExisting(fs, join(cwd, arg_path))),
         LAMBDA n : n.ok /\ InsideWorkspace(fs, n.loc))

\* C9: for a relative path without ".." component whose nearest existing
\* ancestor canonicalizes inside the workspace root and whose target does
\* not exist, validate_for_read returns PathNotFound with the requested
\* path string, never PathTraversalDetected.
C9_NotFoundNotTraversal ==
  C9_Precondition => (last.res.kind = "PathNotFound" /\ last.res.arg = arg_path)

C9_Witness ==
  /\ C9_Precondition
  /\ arg_path = <<"a", "/", "l">>
  /\ last.res.kind = "PathNotFound"

\* C10: validate_for_read and validate_for_write agree up to the existence
\* step: an error of validate_for_write is the error of validate_for_read,
\* and where validate_for_write returns Ok(p), validate_for_read returns
\* Ok(p) if p exists and PathNotFound otherwise.
C10_ReadIsWritePlusExistence ==
  last.op = "validate_for_read" =>
    Let(validate_for_write(fs, cwd, arg_path),
        LAMBDA w :
          IF w.kind # "Ok" THEN last.res.kind = w.kind
          ELSE IF exists(fs, w.path) THEN last.res = w
          ELSE last.res.kind = "PathNotFound")

C10_Witness ==
  /\ last.op = "validate_for_read"
  /\ validate_for_write(fs, cwd, arg_path).kind = "Ok"
  /\ last.res.kind = "PathNotFound"

---------------------------------------------------------------------------
(* JSON values of the conversation (src/main.rs) *)

\* Value::as_str after Value::get
as_str(v) == IF v.j = "str" THEN Some(v.s) ELSE [some |-> FALSE, v |-> ""]

RECURSIVE BoundaryFrom(_, _, _, _)
BoundaryFrom(t, i, start, k) ==
  IF i > Len(t) THEN k = start
  ELSE LET end == start + t[i].w * t[i].n IN
    IF k < end THEN (k - start) % t[i].w = 0
    ELSE BoundaryFrom(t, i + 1, end, k)

\* str::is_char_boundary
is_char_boundary(t, k) == BoundaryFrom(t, 1, 0, k)

Min(a, b) == IF a < b THEN a ELSE b

\* bytes of a malformed body that are echoed
BodyEchoBytes == 500
\* bytes of a thinking text that are displayed
ThinkingDisplayBytes == 200

\* &response_text[..response_text.len().min(500)] panics off a boundary
BodyEchoPanics(body) == ~is_char_boundary(body, Min(ByteLen(body), BodyEchoBytes))

\* &thinking[..200] panics off a boundary
ThinkingDisplayPanics(t) ==
  ByteLen(t) > ThinkingDisplayBytes /\ ~is_char_boundary(t, ThinkingDisplayBytes)

\* a content block of a response
Block(type, id, name, input, text) ==
  [type |-> type, id |-> id, name |-> name, input |-> input, text |-> text]

TextBlock == Block(Str("text"), Absent, NoName, InputAbsent, Ascii(2))
ThinkingBlock == Block(Str("thinking"), Absent, NoName, InputAbsent, Ascii(3))
WriteBlock ==
  Block(Str("tool_use"), Str("t1"), NameStr(write_file_name),
        InputObj([j |-> "str", s |-> <<"a">>], Str("y")), <<>>)
ReadBlock ==
  Block(Str("tool_use"), Str("t2"), NameStr(read_file_name),
        InputObj([j |-> "str", s |-> <<"a">>], Absent), <<>>)
UnknownToolBlock ==
  Block(Str("tool_use"), Absent, NameStr(nope_name), InputNull, <<>>)
\* a thinking text of 199 one-byte characters and one three-byte character:
\* byte 200 is inside the last character
LongThinkingBlock ==
  Block(Str("thinking"), Absent, NoName, InputAbsent,
        <<[w |-> 1, n |-> 199], [w |-> 3, n |-> 1]>>)
\* tool_use blocks that fail: no name, an input without content, a path
\* outside the workspace, a directory read as a file
NoNameBlock == Block(Str("tool_use"), Str("t3"), NoName, InputNull, <<>>)
BadInputBlock ==
  Block(Str("tool_use"), Str("t4"), NameStr(write_file_name),
        InputObj([j |-> "str", s |-> <<"a">>], Absent), <<>>)
EscapeReadBlock ==
  Block(Str("tool_use"), Str("t5"), NameStr(read_file_name),
        InputObj([j |-> "str", s |-> <<"/", "o", "/", "a">>], Absent), <<>>)
ReadDirBlock ==
  Block(Str("tool_use"), Str("t6"), NameStr(read_file_name),
        InputObj([j |-> "str", s |-> <<".">>], Absent), <<>>)
OtherTypeBlock == Block(Str("image"), Absent, NoName, InputAbsent, <<>>)
NoTypeBlock == Block(Absent, Absent, NoName, InputAbsent, <<>>)

\* variant: a block without a string type is taken for a tool_use block
parse_content_block_default(block) ==
  IF block.type.j = "str" THEN Some(block.type.s) ELSE Some("tool_use")

\* fn parse_content_block
parse_content_block(block) == as_str(block.type)

\* fn create_tool_result
create_tool_result(tool_use_id, content) ==
  [type |-> "tool_result", tool_use_id |-> tool_use_id, content |-> content]

TextContent(x) == [t |-> "Text", text |-> x, blocks |-> <<>>]
BlocksContent(bs) == [t |-> "Blocks", text |-> "", blocks |-> bs]
Message(role, content) == [role |-> role, content |-> content]

---------------------------------------------------------------------------
(* ToolRegistry (src/tools/mod.rs) *)

\* variant: the payload of a refused input says nothing
InvalidInput_blank ==
  [has_success |-> TRUE, success |-> FALSE, content |-> "", message |-> "",
   error |-> ""]

\* the payload of an input that does not deserialize
InvalidInput ==
  [has_success |-> TRUE, success |-> FALSE, content |-> "", message |-> "",
   error |-> "Invalid input"]

\* serde_json::from_value::<ReadFileInput>: an object with a string
\* file_path (other members are ignored), or an array of one string
deserializes_read(input) ==
  /\ input.file_path.j = "str"
  /\ \/ input.j = "obj"
     \/ input.j = "arr" /\ input.content.j = "absent"

\* serde_json::from_value::<WriteFileInput>: an object with string
\* file_path and content, or an array of two strings
deserializes_write(input) ==
  /\ input.j \in {"obj", "arr"}
  /\ input.file_path.j = "str"
  /\ input.content.j = "str"

\* ReadFileTool::execute
ReadFileTool_execute(f, input) ==
  IF deserializes_read(input)
  THEN [out |-> execute_read_file(f, input.file_path.s), fs |-> f]
  ELSE [out |-> InvalidInput, fs |-> f]

\* WriteFileTool::execute
WriteFileTool_execute(f, input) ==
  IF deserializes_write(input)
  THEN execute_write_file(f, input.file_path.s, input.content.s)
  ELSE [out |-> InvalidInput, fs |-> f]

\* the characters of "Unknown tool: "
UnknownToolPrefix ==
  <<"U", "n", "k", "n", "o", "w", "n", " ", "t", "o", "o", "l", ":", " ">>

\* format!(r#"{{"error": "Unknown tool: {}"}}"#, name): the name is put
\* between the quotes as it is
format_unknown_tool(name) ==
  <<"{", "\"", "e", "r", "r", "o", "r", "\"", ":", " ", "\"">>
    \o UnknownToolPrefix \o name \o <<"\"", "}">>

\* the payload text read as JSON: a string literal ends at the first quote
\* that is not escaped; a backslash must be followed by an escape character
\* and the pair stands for one character (\u with its four digits is not
\* among the characters used here)
JsonEscapes == {"\"", "\\", "/", "b", "f", "n", "r", "t"}

Unescape(c) ==
  IF c = "b" THEN "BS" ELSE IF c = "f" THEN "FF" ELSE IF c = "n" THEN "LF"
  ELSE IF c = "r" THEN "CR" ELSE IF c = "t" THEN "TAB" ELSE c

JsonFail == [ok |-> FALSE, v |-> <<>>, next |-> 0]

RECURSIVE json_string_body(_, _, _)
json_string_body(t, i, acc) ==
  IF i > Len(t) THEN JsonFail
  ELSE IF t[i] = "\"" THEN [ok |-> TRUE, v |-> acc, next |-> i + 1]
  ELSE IF t[i] = "\\"
  THEN IF i + 1 > Len(t) \/ t[i + 1] \notin JsonEscapes THEN JsonFail
       ELSE json_string_body(t, i + 2, Append(acc, Unescape(t[i + 1])))
  ELSE json_string_body(t, i + 1, Append(acc, t[i]))

ErrorObjectOpen == <<"{", "\"", "e", "r", "r", "o", "r", "\"", ":", " ", "\"">>

\* the text closes the object right after the string
ClosesObject(t, r) == r.ok /\ r.next = Len(t) /\ t[r.next] = "}"

\* the error field of a payload text that is a JSON object with that one
\* member, if the text is such an object
error_field(t) ==
  IF ~IsPrefix(ErrorObjectOpen, t) THEN None
  ELSE Let(json_string_body(t, Len(ErrorObjectOpen) + 1, <<>>),
           LAMBDA r : IF ClosesObject(t, r) THEN Some(r.v) ELSE None)

\* variant: an unknown tool yields an empty payload
UnknownTool_silent(name) ==
  [has_success |-> FALSE, success |-> FALSE, content |-> "", message |-> "",
   error |-> "", raw |-> <<>>]

\* the payload of an unknown tool: the formatted text, which has no
\* success field
UnknownTool(name) ==
  [has_success |-> FALSE, success |-> FALSE, content |-> "", message |-> "",
   error |-> "", raw |-> format_unknown_tool(name)]

\* ToolRegistry::execute
ToolRegistry_execute(f, name, input) ==
  IF name \notin RegisteredTools THEN [out |-> UnknownTool(name), fs |-> f]
  ELSE IF name = read_file_name THEN ReadFileTool_execute(f, input)
  ELSE WriteFileTool_execute(f, input)

---------------------------------------------------------------------------
(* ChatClient (src/main.rs): the conversation specification *)

UserTexts == {"u"}

\* the blocks responses are made of
BlockPool == {TextBlock, WriteBlock, UnknownToolBlock}

\* further responses: thinking blocks, blocks of other and of no type, tool
\* uses between other blocks, failing tool uses followed by another block
ExtraContents ==
  { <<ThinkingBlock>>,
    <<LongThinkingBlock>>,
    <<WriteBlock, LongThinkingBlock>>,
    <<OtherTypeBlock, NoTypeBlock>>,
    <<TextBlock, WriteBlock, ThinkingBlock, UnknownToolBlock>>,
    <<ReadBlock>>,
    <<NoNameBlock, WriteBlock>>,
    <<BadInputBlock, WriteBlock>>,
    <<EscapeReadBlock, WriteBlock>>,
    <<ReadDirBlock, ReadBlock>>,
    <<WriteBlock, ReadBlock>> }

ResponseContents ==
  (UNION { [1..n -> BlockPool] : n \in 0..MaxBlocks }) \cup ExtraContents

\* bodies that do not parse as a response: short, longer than the echoed
\* prefix, and with a 3-byte character across byte 500
MalformedBodies ==
  { Ascii(3), Ascii(600), <<[w |-> 1, n |-> 499], [w |-> 3, n |-> 1]>> }

\* variant: two messages are removed
Pop_two(q) == IF Len(q) < 2 THEN <<>> ELSE SubSeq(q, 1, Len(q) - 2)

\* Vec::pop
Pop(q) == IF q = <<>> THEN q ELSE SubSeq(q, 1, Len(q) - 1)

\* the workspace a session starts in
SessionFS == (<<W>> :> Dir) @@ Outside

Init ==
  /\ fs = SessionFS
  /\ arg_path = <<>>
  /\ arg_content = ""
  /\ last = NoOp
  /\ steps = 0
  /\ arg_name = <<>>
  /\ arg_input = InputNull
  /\ settings = SessionSettings
  /\ process_cwd = cwd
  /\ registry = with_builtins
  /\ SessionInit

\* variant: the request carries the last message only
request_body_last_only ==
  [model |-> client.model,
   messages |-> IF messages = <<>> THEN <<>> ELSE <<messages[Len(messages)]>>,
   tools |-> client.tool_registry]

\* the request body built at the top of the loop (lines 135-140)
request_body ==
  [model |-> client.model, messages |-> messages, tools |-> client.tool_registry]

\* send_message, lines 126-131, on the session: the user message is
\* appended and the loop is entered
push_user_message(user_input) ==
  /\ messages' = Append(messages, Message("user", TextContent(user_input)))
  /\ preHist' = messages
  /\ outcome' = "running"
  /\ round' = 0
  /\ pc' = "RequestInFlight"
  /\ UNCHANGED <<result, idx, tool_results, has_tool_use, calls>>
  /\ UNCHANGED client

\* send_message, lines 126-131: the user message is appended
SendMessage(user_input) ==
  /\ pc = "Idle"
  /\ calls < MaxCalls
  /\ push_user_message(user_input)
  /\ UNCHANGED fsVars

\* send() fails (line 149): the error is returned, the history is left
RespSendFails ==
  /\ pc = "RequestInFlight"
  /\ calls < MaxCalls
  /\ calls' = calls + 1
  /\ round' = round + 1
  /\ outcome' = "send_failed"
  /\ pc' = "Idle"
  /\ UNCHANGED <<messages, result, idx, tool_results, has_tool_use, preHist>>
  /\ UNCHANGED fsVars
  /\ UNCHANGED client

\* variant: the history is left as it is on a non-2xx status
RespNon2xx_keep(body_readable) ==
  /\ pc = "RequestInFlight"
  /\ calls < MaxCalls
  /\ calls' = calls + 1
  /\ round' = round + 1
  /\ IF body_readable
     THEN /\ messages' = messages
          /\ outcome' = "non2xx"
     ELSE /\ messages' = messages
          /\ outcome' = "non2xx_unreadable"
  /\ pc' = "Idle"
  /\ UNCHANGED <<result, idx, tool_results, has_tool_use, preHist>>
  /\ UNCHANGED fsVars
  /\ UNCHANGED client

\* a non-2xx status (lines 151-157); reading the error body may fail (153)
RespNon2xx(body_readable) ==
  /\ pc = "RequestInFlight"
  /\ calls < MaxCalls
  /\ calls' = calls + 1
  /\ round' = round + 1
  /\ IF body_readable
     THEN /\ messages' = Pop(messages)
          /\ outcome' = "non2xx"
     ELSE /\ messages' = messages
          /\ outcome' = "non2xx_unreadable"
  /\ pc' = "Idle"
  /\ UNCHANGED <<result, idx, tool_results, has_tool_use, preHist>>
  /\ UNCHANGED fsVars
  /\ UNCHANGED client

\* a 2xx status whose body cannot be read (line 160)
RespBodyUnreadable ==
  /\ pc = "RequestInFlight"
  /\ calls < MaxCalls
  /\ calls' = calls + 1
  /\ round' = round + 1
  /\ outcome' = "body_unreadable"
  /\ pc' = "Idle"
  /\ UNCHANGED <<messages, result, idx, tool_results, has_tool_use, preHist>>
  /\ UNCHANGED fsVars
  /\ UNCHANGED client

\* a 2xx status whose body does not parse (lines 161-172)
RespMalformed(body) ==
  /\ pc = "RequestInFlight"
  /\ calls < MaxCalls
  /\ calls' = calls + 1
  /\ round' = round + 1
  /\ IF BodyEchoPanics(body)
     THEN /\ messages' = messages
          /\ outcome' = "panic_body"
          /\ pc' = "Panicked"
     ELSE /\ messages' = Pop(messages)
          /\ outcome' = "malformed"
          /\ pc' = "Idle"
  /\ UNCHANGED <<result, idx, tool_results, has_tool_use, preHist>>
  /\ UNCHANGED fsVars
  /\ UNCHANGED client

\* a 2xx status with a parsed response (lines 161-176)
RespParsed(content) ==
  /\ pc = "RequestInFlight"
  /\ calls < MaxCalls
  /\ calls' = calls + 1
  /\ round' = round + 1
  /\ result' = content
  /\ idx' = 1
  /\ tool_results' = <<>>
  /\ has_tool_use' = FALSE
  /\ pc' = "Dispatching"
  /\ UNCHANGED <<messages, preHist, outcome>>
  /\ UNCHANGED fsVars
  /\ UNCHANGED client

\* the block has a string type field equal to type
BlockIs(block, type) ==
  parse_content_block(block).some /\ parse_content_block(block).v = type

\* .and_then(|v| v.as_str()).unwrap_or("")
str_or_empty(v) == IF as_str(v).some THEN as_str(v).v ELSE ""

\* the same for the name, a sequence of characters
name_or_empty(v) == IF v.j = "str" THEN v.s ELSE <<>>

\* .unwrap_or(&Value::Null)
input_or_null(input) == IF input.j = "absent" THEN InputNull ELSE input

\* variant: the effect of a tool on the filesystem is dropped
DispatchBlock_effect_dropped ==
  /\ pc = "Dispatching"
  /\ idx <= Len(result)
  /\ IF BlockIs(result[idx], "thinking") /\ ThinkingDisplayPanics(result[idx].text)
     THEN /\ pc' = "Panicked"
          /\ outcome' = "panic_thinking"
          /\ UNCHANGED <<fs, idx, tool_results, has_tool_use>>
     ELSE IF BlockIs(result[idx], "tool_use")
     THEN Let(ToolRegistry_execute(fs, name_or_empty(result[idx].name),
                                   input_or_null(result[idx].input)),
              LAMBDA r :
                /\ has_tool_use' = TRUE
                /\ fs' = fs
                /\ tool_results' =
                     Append(tool_results,
                            create_tool_result(str_or_empty(result[idx].id), r.out))
                /\ idx' = idx + 1
                /\ UNCHANGED <<pc, outcome>>)
     ELSE /\ idx' = idx + 1
          /\ UNCHANGED <<fs, pc, outcome, tool_results, has_tool_use>>
  /\ UNCHANGED <<messages, result, preHist, round, calls>>
  /\ UNCHANGED <<arg_path, arg_content, last, steps, arg_name, arg_input, settings, process_cwd, registry>>
  /\ UNCHANGED client

\* one iteration of the for loop (lines 178-213)
DispatchBlock ==
  /\ pc = "Dispatching"
  /\ idx <= Len(result)
  /\ IF BlockIs(result[idx], "thinking") /\ ThinkingDisplayPanics(result[idx].text)
     THEN /\ pc' = "Panicked"
          /\ outcome' = "panic_thinking"
          /\ UNCHANGED <<fs, idx, tool_results, has_tool_use>>
     ELSE IF BlockIs(result[idx], "tool_use")
     THEN Let(ToolRegistry_execute(fs, name_or_empty(result[idx].name),
                                   input_or_null(result[idx].input)),
              LAMBDA r :
                /\ has_tool_use' = TRUE
                /\ fs' = r.fs
                /\ tool_results' =
                     Append(tool_results,
                            create_tool_result(str_or_empty(result[idx].id), r.out))
                /\ idx' = idx + 1
                /\ UNCHANGED <<pc, outcome>>)
     ELSE /\ idx' = idx + 1
          /\ UNCHANGED <<fs, pc, outcome, tool_results, has_tool_use>>
  /\ UNCHANGED <<messages, result, preHist, round, calls>>
  /\ UNCHANGED <<arg_path, arg_content, last, steps, arg_name, arg_input, settings, process_cwd, registry>>
  /\ UNCHANGED client

\* after the for loop (lines 215-233)
FinishRound ==
  /\ pc = "Dispatching"
  /\ idx > Len(result)
  /\ LET with_assistant == Append(messages, Message("assistant", BlocksContent(result)))
     IN IF ~has_tool_use
        THEN /\ messages' = with_assistant
             /\ pc' = "Idle"
             /\ outcome' = "ok"
        ELSE /\ messages' = Append(with_assistant,
                                   Message("user", BlocksContent(tool_results)))
             /\ pc' = "RequestInFlight"
             /\ outcome' = outcome
  /\ UNCHANGED <<result, idx, tool_results, has_tool_use, preHist, round, calls>>
  /\ UNCHANGED fsVars
  /\ UNCHANGED client

\* variant: only the last message is dropped
ClearHistory_last_only ==
  /\ pc = "Idle"
  /\ messages' = Pop(messages)
  /\ outcome' = "cleared"
  /\ UNCHANGED <<pc, result, idx, tool_results, has_tool_use, preHist, round, calls>>
  /\ UNCHANGED fsVars
  /\ UNCHANGED client

\* clear_history (lines 236-239) on the session
clear_history ==
  /\ messages' = <<>>
  /\ outcome' = "cleared"
  /\ UNCHANGED <<pc, result, idx, tool_results, has_tool_use, preHist, round, calls>>
  /\ UNCHANGED client

\* clear_history (lines 236-239), called by the REPL between turns
ClearHistory ==
  /\ pc = "Idle"
  /\ clear_history
  /\ UNCHANGED fsVars

Next ==
  \/ \E u \in UserTexts : SendMessage(u)
  \/ RespSendFails
  \/ \E b \in BOOLEAN : RespNon2xx(b)
  \/ RespBodyUnreadable
  \/ \E body \in MalformedBodies : RespMalformed(body)
  \/ \E content \in ResponseContents : RespParsed(content)
  \/ DispatchBlock
  \/ FinishRound
  \/ ClearHistory

Spec == Init /\ [][Next]_vars

---------------------------------------------------------------------------
(* The registry specification: ToolRegistry::execute applied to one name   *)
(* and one input value                                                     *)

MaxNameLen == 3        \* longest generated tool name

\* characters of tool names: a letter, a letter that is a JSON escape
\* character, the quote and the backslash
NameAlphabet == {"a", "b", "\"", "\\"}

ToolNames ==
  (UNION { [1..n -> NameAlphabet] : n \in 0..MaxNameLen }) \cup RegisteredTools

\* file_path members: relative to a file, with ".." inside a name, the
\* workspace directory itself, absolute, through the symlink; missing; of
\* another type
InputPaths ==
  { [j |-> "str", s |-> p] :
      p \in { <<"a">>, <<"a", ".", ".", "a">>, <<".">>, <<"/", "o", "/", "a">>,
              <<"l", "/", "a">> } }
    \cup { NoPath, WrongTypePath }

InputContents == { Str("y"), Str(""), Absent, NotAString }

InputValues ==
  { InputObj(fp, c) : fp \in InputPaths, c \in InputContents }
    \cup { InputArr(fp, c) : fp \in {[j |-> "str", s |-> <<"a">>], NoPath},
                             c \in {Str("y"), Absent} }
    \cup { InputNull, InputScalar }

\* the workspace with each kind of a, with the symlink l to the directory
\* outside, and missing
RegistryFS ==
  { (<<W>> :> Dir) @@ Outside @@ a : a \in AChoices }
    \cup { (<<W>> :> Dir) @@ Outside @@ (<<W, L>> :> Link(<<"/", "o">>)), Outside }

InitRegistry ==
  /\ fs \in RegistryFS
  /\ arg_path = <<>>
  /\ arg_content = ""
  /\ last = NoOp
  /\ steps = 0
  /\ arg_name \in ToolNames
  /\ arg_input \in InputValues
  /\ settings = SessionSettings
  /\ process_cwd = cwd
  /\ registry = with_builtins
  /\ SessionInit

\* ToolRegistry::execute(name, input)
RegistryExecute ==
  /\ steps < MaxSteps
  /\ Let(ToolRegistry_execute(fs, arg_name, arg_input),
         LAMBDA r : /\ last' = [op |-> "execute", res |-> r.out, pre |-> fs]
                    /\ fs' = r.fs)
  /\ steps' = steps + 1
  /\ UNCHANGED <<arg_path, arg_content, arg_name, arg_input, settings, process_cwd, registry>>
  /\ UNCHANGED sessVars

NextRegistry == RegistryExecute

SpecRegistry == InitRegistry /\ [][NextRegistry]_vars

---------------------------------------------------------------------------
(* The settings specification: Settings::validate applied to one Settings *)

MaxKeyChars == 11      \* most characters of a generated API key

\* API keys of characters of one, two or three bytes, and of one-byte
\* characters followed by one three-byte character
KeyTexts ==
  { <<[w |-> w, n |-> n]>> : w \in 1..3, n \in 1..MaxKeyChars }
    \cup { <<[w |-> 1, n |-> n], [w |-> 3, n |-> 1]>> : n \in 1..(MaxKeyChars - 1) }
    \cup { <<>> }

\* URL texts: empty, a scheme alone, each accepted scheme with a host, a
\* scheme cut short, no scheme, a scheme in capitals
UrlTexts ==
  { <<>>,
    HttpScheme,
    HttpScheme \o <<"h">>,
    HttpsScheme \o <<"h">>,
    Socks5Scheme \o <<"h">>,
    <<"h", "t", "t", "p", ":", "/">>,
    <<"h">>,
    <<"H", "T", "T", "P", ":", "/", "/", "h">> }

ProxyValues == { None } \cup { Some(u) : u \in UrlTexts }

InitSettings ==
  /\ fs = SessionFS
  /\ arg_path = <<>>
  /\ arg_content = ""
  /\ last = NoOp
  /\ steps = 0
  /\ arg_name = <<>>
  /\ arg_input = InputNull
  /\ settings \in { Settings(k, b, x) : k \in KeyTexts, b \in UrlTexts, x \in ProxyValues }
  /\ process_cwd = cwd
  /\ registry = with_builtins
  /\ SessionInit

\* settings.validate()
Validate ==
  /\ steps < MaxSteps
  /\ last' = [op |-> "validate", res |-> validate(settings), pre |-> fs]
  /\ steps' = steps + 1
  /\ UNCHANGED <<fs, arg_path, arg_content, arg_name, arg_input, settings, process_cwd, registry>>
  /\ UNCHANGED sessVars

NextSettings == Validate

SpecSettings == InitSettings /\ [][NextSettings]_vars

---------------------------------------------------------------------------
(* Properties of the conversation loop (Spec) *)

\* send_message has just returned to the REPL
Returned == pc = "Idle" /\ outcome \notin {"none", "cleared"}

\* the user text message of the turn is still where send_message put it
TurnMessageKept ==
  /\ Len(messages) > Len(preHist)
  /\ messages[Len(preHist) + 1].role = "user"
  /\ messages[Len(preHist) + 1].content.t = "Text"

\* C1: in whichever round of the turn the model service answers with a
\* non-2xx status, the history length when send_message returns equals the
\* length before the call, and the user text message of the turn is gone.
C1_Claim ==
  (Returned /\ outcome = "non2xx") =>
    (Len(messages) = Len(preHist) /\ ~TurnMessageKept)

\* C2: if the request fails with a transport error (no response, or a body
\* that cannot be read), send_message removes the just-appended user
\* message: the history after the call equals the history before it.
C2_Claim ==
  (Returned /\ outcome \in {"send_failed", "body_unreadable", "non2xx_unreadable"}) =>
    messages = preHist

\* C3: for every 2xx body that does not parse, whatever its length and
\* characters, send_message reports the error, removes the just-appended
\* user message, appends no assistant message, executes no tool and returns
\* with the history equal to the pre-call history.
C3_Claim ==
  /\ outcome # "panic_body"
  /\ outcome = "malformed" => (pc = "Idle" /\ messages = preHist)

\* C4: in every Idle state, after any sequence of send_message calls with
\* any outcomes and clear_history calls, every user message of the history
\* is followed by an assistant message; the history never ends with a user
\* message.
C4_Claim ==
  pc = "Idle" =>
    \A i \in 1..Len(messages) :
      messages[i].role = "user" =>
        (i < Len(messages) /\ messages[i + 1].role = "assistant")

---------------------------------------------------------------------------
(* Properties of one round of the tool-use loop (Spec) *)

\* the tool_use blocks of a response, in array order
IsToolUse(block) == BlockIs(block, "tool_use")
ToolUses(content) == SelectSeq(content, IsToolUse)

\* the tool-result message has just been appended after the assistant message
ToolResultsAppended ==
  /\ pc = "Dispatching"
  /\ pc' = "RequestInFlight"

\* the step that executes the tool_use block result[idx]
ToolUseStep ==
  /\ pc = "Dispatching"
  /\ idx <= Len(result)
  /\ IsToolUse(result[idx])
  /\ idx' = idx + 1

\* r is the tool_result of the tool_use block u executed on filesystem f
IsResultOf(r, u, f) ==
  /\ r.type = "tool_result"
  /\ Some(r.tool_use_id) = as_str(u.id)
  /\ r.content = ToolRegistry_execute(f, name_or_empty(u.name), input_or_null(u.input)).out

\* C11: in every round whose response contains tool_use blocks u1..uk, the
\* user message appended after the assistant message holds exactly k
\* tool_result blocks in that order; each carries the id of its tool_use
\* block, unaltered, and the string ToolRegistry.execute returned for it.
C11_Claim ==
  [][ /\ ToolUseStep =>
          /\ Len(tool_results') = Len(tool_results) + 1
          /\ SubSeq(tool_results', 1, Len(tool_results)) = tool_results
          /\ IsResultOf(tool_results'[Len(tool_results')], result[idx], fs)
      /\ ToolResultsAppended =>
          /\ messages'[Len(messages')].role = "user"
          /\ messages'[Len(messages')].content = BlocksContent(tool_results)
          /\ messages'[Len(messages') - 1].role = "assistant"
          /\ Len(tool_results) = Len(ToolUses(result)) ]_vars

\* the response held in result is the one of the current round, and the
\* round is past its parsing
ResponseCurrent == pc = "Dispatching" \/ outcome \in {"ok", "panic_thinking"}

\* C12: if the first successful response of a turn contains no tool_use
\* block, send_message makes exactly one model-service call, executes no
\* tool, appends exactly two messages (the user text message, then the
\* assistant message) and returns.
C12_Claim ==
  (ResponseCurrent /\ round = 1 /\ ToolUses(result) = <<>>) =>
    /\ pc # "Panicked"
    /\ tool_results = <<>>
    /\ ~has_tool_use
    /\ pc = "Idle" =>
         /\ Len(messages) = Len(preHist) + 2
         /\ SubSeq(messages, 1, Len(preHist)) = preHist
         /\ messages[Len(preHist) + 1].role = "user"
         /\ messages[Len(preHist) + 1].content.t = "Text"
         /\ messages[Len(preHist) + 2] = Message("assistant", BlocksContent(result))

\* the messages the turn has appended: the user text message, then for
\* each of the first n rounds an assistant message with tool_use blocks and
\* a user message of tool results
ToolRoundsAppended(n) ==
  /\ Len(messages) >= Len(preHist) + 1 + 2 * n
  /\ SubSeq(messages, 1, Len(preHist)) = preHist
  /\ messages[Len(preHist) + 1].role = "user"
  /\ messages[Len(preHist) + 1].content.t = "Text"
  /\ \A j \in 1..n :
       /\ messages[Len(preHist) + 2 * j].role = "assistant"
       /\ ToolUses(messages[Len(preHist) + 2 * j].content.blocks) # <<>>
       /\ messages[Len(preHist) + 2 * j + 1].role = "user"
       /\ messages[Len(preHist) + 2 * j + 1].content.t = "Blocks"

\* C13: a successful response with at least one tool_use block is followed
\* by exactly one further model-service call, issued only after all its
\* tool_use blocks were executed and the assistant message and the
\* tool-result user message were appended; a turn of k tool-use rounds and
\* a tool-free response makes k+1 calls and grows the history by 2k+2.
C13_Claim ==
  /\ (ResponseCurrent /\ ToolUses(result) # <<>>) => pc # "Panicked"
  /\ (pc = "RequestInFlight" /\ round > 0) =>
       /\ Len(tool_results) = Len(ToolUses(result))
       /\ Len(messages) = Len(preHist) + 1 + 2 * round
       /\ ToolRoundsAppended(round)
       /\ messages[Len(messages) - 1] = Message("assistant", BlocksContent(result))
       /\ messages[Len(messages)] = Message("user", BlocksContent(tool_results))
  /\ (pc = "Idle" /\ outcome = "ok") =>
       /\ round >= 1
       /\ Len(messages) = Len(preHist) + 2 * (round - 1) + 2
       /\ ToolRoundsAppended(round - 1)
       /\ messages[Len(messages)].role = "assistant"
       /\ ToolUses(messages[Len(messages)].content.blocks) = <<>>

\* C14: after every successfully parsed response exactly one assistant
\* message is appended whose content is the response's content array
\* unchanged (tool_use, thinking, unrecognized and untyped blocks included),
\* after all blocks were processed and before the tool-result user message.
C14_Claim ==
  /\ ResponseCurrent => pc # "Panicked"
  /\ pc = "Dispatching" => Len(messages) = Len(preHist) + 2 * round - 1
  /\ (pc = "RequestInFlight" /\ round > 0) =>
       /\ Len(messages) = Len(preHist) + 2 * round + 1
       /\ messages[Len(messages) - 1] = Message("assistant", BlocksContent(result))
       /\ messages[Len(messages)].role = "user"
  /\ (pc = "Idle" /\ outcome = "ok") =>
       /\ Len(messages) = Len(preHist) + 2 * round
       /\ messages[Len(messages)] = Message("assistant", BlocksContent(result))

\* what the tool_use block u returns when executed on filesystem f
OutputOf(u, f) ==
  ToolRegistry_execute(f, name_or_empty(u.name), input_or_null(u.input)).out

\* the payload reports a failure
ReportsFailure(o) == ~o.has_success \/ ~o.success

\* the tool_use block u fails on f: it has no id or no name, or its tool is
\* unknown, or its input, its path or the file operation is refused
FailingToolUse(u, f) ==
  \/ ~as_str(u.id).some
  \/ u.name.j # "str"
  \/ ReportsFailure(OutputOf(u, f))

\* the payload of a failure describes it
DescribesFailure(o) ==
  IF o.has_success THEN (~o.success => o.error # "")
  ELSE IsPrefix(ErrorObjectOpen \o UnknownToolPrefix, o.raw)

\* the loop is at a failing tool_use block
AtFailingToolUse ==
  /\ pc = "Dispatching"
  /\ idx <= Len(result)
  /\ IsToolUse(result[idx])
  /\ FailingToolUse(result[idx], fs)

\* C15: a tool_use block that names an unregistered tool, lacks an id or a
\* name, carries malformed input, or whose path fails validation or whose
\* file operation fails never aborts the turn: it yields exactly one
\* tool_result block describing the failure, the remaining blocks are
\* still processed, and the next model-service call is still made.
C15_FailingToolDoesNotAbort ==
  [][ /\ AtFailingToolUse =>
          /\ pc' = "Dispatching"
          /\ idx' = idx + 1
          /\ has_tool_use'
          /\ Len(tool_results') = Len(tool_results) + 1
          /\ tool_results'[Len(tool_results')].type = "tool_result"
          /\ tool_results'[Len(tool_results')].content = OutputOf(result[idx], fs)
          /\ DescribesFailure(tool_results'[Len(tool_results')].content)
      /\ (pc = "Dispatching" /\ idx > Len(result) /\ has_tool_use) =>
          /\ pc' = "RequestInFlight"
          /\ messages'[Len(messages')] = Message("user", BlocksContent(tool_results))
      /\ (pc = "Dispatching" /\ pc' = "Panicked") => ~IsToolUse(result[idx]) ]_vars

\* a round in which a failing tool use was followed by another block has
\* issued the next request
C15_Witness ==
  /\ pc = "RequestInFlight"
  /\ round > 0
  /\ Len(result) = 2
  /\ Len(tool_results) = 2
  /\ ReportsFailure(tool_results[1].content)
  /\ ~ReportsFailure(tool_results[2].content)

---------------------------------------------------------------------------
(* Properties of ToolRegistry::execute (SpecRegistry) *)

\* C16: for every name that is not registered (the empty name and names
\* with quote or backslash characters included) and every input value,
\* ToolRegistry.execute returns, without touching the filesystem, a
\* structured payload whose error field names the unknown tool.
C16_Claim ==
  (last.op = "execute" /\ arg_name \notin RegisteredTools) =>
    /\ fs = last.pre
    /\ ~last.res.has_success
    /\ error_field(last.res.raw).some
    /\ error_field(last.res.raw).v = UnknownToolPrefix \o arg_name

\* the input deserializes into the input structure of the named tool
Deserializes(name, input) ==
  IF name = read_file_name THEN deserializes_read(input)
  ELSE deserializes_write(input)

\* what a successful call has done: read_file returns the content of the
\* file the path leads to, write_file has left the content in it
SuccessEffect(name, input, pre, post, out) ==
  IF name = read_file_name
  THEN /\ post = pre
       /\ fs_read_to_string(pre, input.file_path.s).ok
       /\ out.content = fs_read_to_string(pre, input.file_path.s).content
  ELSE /\ fs_read_to_string(post, input.file_path.s).ok
       /\ fs_read_to_string(post, input.file_path.s).content = input.content.s

\* C17: ToolRegistry.execute on read_file and write_file is total: for
\* every input value (null, non-object, missing or wrong-typed file_path
\* or content) and every filesystem state it returns a payload with a
\* success field, with success=false and a non-empty error on a failure
\* and success=true otherwise; an input that does not deserialize causes
\* no filesystem access.
C17_ExecuteTotal ==
  (last.op = "execute" /\ arg_name \in RegisteredTools) =>
    /\ last.res.has_success
    /\ ~last.res.success => last.res.error # ""
    /\ last.res.success =>
         /\ last.res.error = ""
         /\ Deserializes(arg_name, arg_input)
         /\ SuccessEffect(arg_name, arg_input, last.pre, fs, last.res)
    /\ ~Deserializes(arg_name, arg_input) =>
         /\ ~last.res.success
         /\ fs = last.pre

\* write_file was given null, and read_file an object without file_path
C17_Witness ==
  /\ last.op = "execute"
  /\ arg_name \in RegisteredTools
  /\ ~Deserializes(arg_name, arg_input)
  /\ arg_input.j \in {"null", "obj"}
  /\ ~last.res.success
  /\ fs = last.pre

---------------------------------------------------------------------------
(* The write/read round trip (SpecFS) *)

\* the write the tool is meant to do once the path is accepted: missing
\* parent directories are created, then the file is written
WriteAccepted(f, p, c) ==
  Let(ensure_parent(f, parent(p)),
      LAMBDA d : IF d.ok THEN fs_write(d.fs, p, c) ELSE [ok |-> FALSE, fs |-> d.fs])

\* after that write the file p lies inside the workspace
WrittenInside(w, p) ==
  /\ w.ok
  /\ Stat(w.fs, p).ok
  /\ InsideWorkspace(w.fs, Stat(w.fs, p).loc)

\* p is a relative path without ".." component that validate_for_write
\* accepts and that can be written inside the workspace
C18_Precondition ==
  /\ last.op = "write_file"
  /\ ~is_absolute(arg_path)
  /\ ~HasParentSegment(arg_path)
  /\ validate_for_write(last.pre, cwd, arg_path).kind = "Ok"
  /\ WrittenInside(WriteAccepted(last.pre, arg_path, arg_content), arg_path)

\* C18: for every relative path p that resolves inside the workspace (no
\* ".." component, no symlink escape; names that merely contain two dots
\* and paths whose parent directories do not exist yet included) and
\* every content c, write_file(p, c) succeeds and a following read_file(p)
\* returns success=true with content c.
C18_Claim ==
  C18_Precondition =>
    /\ last.res.success
    /\ execute_read_file(fs, arg_path).success
    /\ execute_read_file(fs, arg_path).content = arg_content

---------------------------------------------------------------------------
(* clear_history (Spec) *)

\* a step of clear_history: the only step that leaves an Idle session Idle
ClearStep == pc = "Idle" /\ pc' = "Idle"

\* a step of send_message taken right after clear_history
SendAfterClear == pc = "Idle" /\ outcome = "cleared" /\ pc' = "RequestInFlight"

\* C19: clear_history called in any Idle state leaves the history empty
\* whatever it contained and changes nothing else in the session (tool
\* registry, model, endpoint); a send_message after it sends a request
\* whose messages consist of the single new user message.
C19_ClearHistory ==
  [][ /\ ClearStep =>
          /\ messages' = <<>>
          /\ UNCHANGED <<client, fs, calls>>
      /\ SendAfterClear =>
          /\ Len(request_body'.messages) = 1
          /\ request_body'.messages[1].role = "user"
          /\ request_body'.messages[1].content.t = "Text"
          /\ request_body'.model = Client.model
          /\ request_body'.tools = RegisteredTools ]_vars

\* a turn has left messages in the history, the history was cleared and
\* the next request is being sent
C19_Witness ==
  /\ pc = "RequestInFlight"
  /\ round = 0
  /\ calls > 0
  /\ result # <<>>
  /\ preHist = <<>>
  /\ Len(messages) = 1

---------------------------------------------------------------------------
(* Settings::validate (SpecSettings) *)

UrlAccepted(b) == str_starts_with(b, HttpScheme) \/ str_starts_with(b, HttpsScheme)

ProxyAccepted(x) ==
  \/ ~x.some
  \/ x.v = <<>>
  \/ str_starts_with(x.v, HttpScheme)
  \/ str_starts_with(x.v, HttpsScheme)
  \/ str_starts_with(x.v, Socks5Scheme)

\* what validate reports: ok, or the first of key, url, proxy that is wrong
Verdict(st, key_accepted) ==
  IF ~key_accepted THEN "key"
  ELSE IF ~UrlAccepted(st.base_url) THEN "url"
  ELSE IF ~ProxyAccepted(st.https_proxy) THEN "proxy"
  ELSE "ok"

Reported(res) ==
  IF res.ok THEN "ok"
  ELSE IF res.err \in {"api_key_empty", "api_key_format"} THEN "key"
  ELSE IF res.err \in {"base_url_empty", "base_url_scheme"} THEN "url"
  ELSE "proxy"

\* C20: Settings.validate returns Ok exactly when the API key has at least
\* 10 characters, the base URL starts with http:// or https://, and the
\* proxy is absent, empty, or starts with http://, https:// or socks5://;
\* otherwise it returns a ValidationError, the API-key checks reported
\* before the base-URL checks and those before the proxy check.
C20_Claim ==
  last.op = "validate" =>
    Reported(last.res) = Verdict(settings, CharLen(settings.api_key) >= MinKeyLen)

\* C20, amended: the same with the length of the API key counted in bytes
\* of its UTF-8 text instead of characters.
C20_ValidateByBytes ==
  last.op = "validate" =>
    Reported(last.res) = Verdict(settings, ByteLen(settings.api_key) >= MinKeyLen)

\* a key of fewer than 10 characters and at least 10 bytes was accepted
C20_Witness ==
  /\ last.op = "validate"
  /\ CharLen(settings.api_key) < MinKeyLen
  /\ ByteLen(settings.api_key) >= MinKeyLen
  /\ last.res.ok

---------------------------------------------------------------------------
(* The history across turns (Spec) *)

\* the user message m answers the tool_use blocks us: one tool_result per
\* block, in order, with the block's id
AnswersToolUses(m, us) ==
  /\ m.role = "user"
  /\ m.content.t = "Blocks"
  /\ Len(m.content.blocks) = Len(us)
  /\ \A j \in 1..Len(us) :
       /\ m.content.blocks[j].type = "tool_result"
       /\ Some(m.content.blocks[j].tool_use_id) = as_str(us[j].id)

\* message i of the history is an assistant message with tool_use blocks
AsksForTools(i) ==
  /\ messages[i].role = "assistant"
  /\ ToolUses(messages[i].content.blocks) # <<>>

\* C21: in every Idle state, whatever send_message and clear_history calls
\* led to it, every assistant message with k >= 1 tool_use blocks is
\* immediately followed by a user message of exactly k tool_result blocks
\* with those ids in order; a failure in a later round of a turn never
\* leaves an unanswered tool_use in the history.
C21_Claim ==
  pc = "Idle" =>
    \A i \in 1..Len(messages) :
      AsksForTools(i) =>
        /\ i < Len(messages)
        /\ AnswersToolUses(messages[i + 1], ToolUses(messages[i].content.blocks))

\* a send_message call is running or has just returned
InCall == pc # "Idle" \/ Returned

\* C22: at every point during a send_message call the history as it was
\* before the call is a prefix of the current history; the history only
\* grows by appends, and the only removal is of a single last message that
\* was appended during this same call.
C22_PreCallHistoryKept ==
  [][ /\ InCall' => IsPrefix(preHist', messages')
      /\ (InCall' /\ Len(messages') >= Len(messages)) => IsPrefix(messages, messages')
      /\ (InCall' /\ Len(messages') < Len(messages)) =>
          /\ messages' = SubSeq(messages, 1, Len(messages) - 1)
          /\ Len(messages) > Len(preHist)
          /\ pc' = "Idle" ]_vars

\* a call on a history that was not empty has removed its own message again
C22_Witness ==
  /\ Returned
  /\ outcome \in {"non2xx", "malformed"}
  /\ preHist # <<>>
  /\ messages = preHist

\* a request has been issued and not yet answered
RequestIssued == pc = "RequestInFlight"

\* C23: every request issued by send_message carries as messages the
\* complete session history at the moment of the call, in transcript order
\* (the pre-call history, the user text of the turn, then an assistant and a
\* tool-result message per finished round), and as tools the definitions of
\* every registered tool; in rounds after the first its last two messages
\* are the previous response's assistant message and the tool-result user
\* message.
C23_RequestCarriesHistory ==
  RequestIssued =>
    Let(request_body.messages, LAMBDA ms :
      /\ ms = messages
      /\ Len(ms) = Len(preHist) + 1 + 2 * round
      /\ SubSeq(ms, 1, Len(preHist)) = preHist
      /\ ms[Len(preHist) + 1].role = "user"
      /\ ms[Len(preHist) + 1].content.t = "Text"
      /\ request_body.tools = {read_file_name, write_file_name}
      /\ request_body.model = Client.model
      /\ round >= 1 =>
           /\ ms[Len(ms) - 1] = Message("assistant", BlocksContent(result))
           /\ ms[Len(ms)] = Message("user", BlocksContent(tool_results))
           /\ Len(ms[Len(ms)].content.blocks) = Len(ToolUses(result))
           /\ \A j \in 1..Len(ToolUses(result)) :
                ms[Len(ms)].content.blocks[j].type = "tool_result")

\* the request of a second round, in a turn on a history that was not empty
C23_Witness ==
  /\ RequestIssued
  /\ round >= 1
  /\ preHist # <<>>

\* blocks i and i + 1 of the response are a write_file and a read_file of
\* the same path
WriteThenRead(i) ==
  /\ i >= 1
  /\ i + 1 <= Len(result)
  /\ IsToolUse(result[i])
  /\ IsToolUse(result[i + 1])
  /\ name_or_empty(result[i].name) = write_file_name
  /\ name_or_empty(result[i + 1].name) = read_file_name
  /\ deserializes_write(input_or_null(result[i].input))
  /\ deserializes_read(input_or_null(result[i + 1].input))
  /\ result[i].input.file_path.s = result[i + 1].input.file_path.s

ToolFreeResponse == pc = "Dispatching" /\ ToolUses(result) = <<>>

\* the outcomes of a call that ended on a failure of the model service
FailureOutcomes ==
  {"send_failed", "non2xx", "non2xx_unreadable", "body_unreadable", "malformed"}

\* C25: send_message has no round cap and returns if and only if the model
\* service produces a failure or a response without a tool_use block: once
\* a response without tool_use has arrived every step of the loop moves to
\* the next block or returns (so the turn terminates), a round with a
\* tool_use block issues a further request, and the call returns only on a
\* failure or on such a response.
C25_Claim ==
  [][ /\ ToolFreeResponse =>
          \/ pc' = "Dispatching" /\ idx' = idx + 1
          \/ pc' = "Idle" /\ outcome' = "ok"
      /\ (pc # "Idle" /\ pc' = "Idle") =>
          \/ outcome' \in FailureOutcomes
          \/ ToolFreeResponse
      /\ (pc = "Dispatching" /\ idx > Len(result) /\ ToolUses(result) # <<>>) =>
          pc' = "RequestInFlight" ]_vars

\* a step of the for loop on a thinking block
ThinkingStep ==
  /\ pc = "Dispatching"
  /\ idx <= Len(result)
  /\ BlockIs(result[idx], "thinking")

\* C26: a thinking block is display-only for every thinking text, also one
\* with a multi-byte character around the 200-byte display cut: processing
\* it executes no tool, adds no tool_result, does not count as tool use,
\* never aborts the turn, and the block stored in the assistant message
\* holds the full text.
C26_Claim ==
  [][ /\ ThinkingStep =>
          /\ pc' = "Dispatching"
          /\ idx' = idx + 1
          /\ UNCHANGED <<fs, tool_results, has_tool_use, messages, calls>>
      /\ (pc = "Dispatching" /\ idx > Len(result)) =>
          \E i \in 1..Len(messages') :
            messages'[i] = Message("assistant", BlocksContent(result)) ]_vars

\* the block is none of text, thinking, tool_use, or has no string type
Unrecognized(block) ==
  \/ block.type.j # "str"
  \/ block.type.s \notin {"text", "thinking", "tool_use"}

\* every block of the response is unrecognized
OnlyUnrecognized(content) ==
  content # <<>> /\ \A j \in 1..Len(content) : Unrecognized(content[j])

\* C27: a response block whose type is none of text, thinking, tool_use,
\* or that has no string type field, is ignored during dispatch: it executes
\* no tool, produces no tool_result, does not make the loop continue and
\* does not abort the turn; a response of only such blocks ends the turn
\* after one call.
C27_UnrecognizedIgnored ==
  [][ /\ (pc = "Dispatching" /\ idx <= Len(result) /\ Unrecognized(result[idx])) =>
          /\ pc' = "Dispatching"
          /\ idx' = idx + 1
          /\ UNCHANGED <<fs, tool_results, has_tool_use, messages, calls, outcome>>
      /\ (pc = "Dispatching" /\ OnlyUnrecognized(result)) =>
          /\ ~has_tool_use
          /\ pc' \in {"Dispatching", "Idle"}
          /\ calls' = calls
          /\ pc' = "Idle" =>
               /\ outcome' = "ok"
               /\ round' = round
               /\ messages' = Append(messages, Message("assistant", BlocksContent(result))) ]_vars

\* a turn whose only response had a block of another type and a block
\* without type has ended
C27_Witness ==
  /\ Returned
  /\ outcome = "ok"
  /\ round = 1
  /\ Len(result) = 2
  /\ OnlyUnrecognized(result)
  /\ result[1].type.j = "str"
  /\ result[2].type.j # "str"

---------------------------------------------------------------------------
(* The parent-directory rejection (SpecFS) *)

\* a relative path whose text has two consecutive dots and none of whose
\* components is ".."
DotsInName ==
  /\ ~is_absolute(arg_path)
  /\ ~HasParentSegment(arg_path)
  /\ contains_dotdot(arg_path)

\* the nearest existing ancestor of the path lies inside the workspace
NoEscape(f) ==
  Let(Stat(f, NearestExisting(f, join(cwd, arg_path))),
      LAMBDA n : n.ok /\ InsideWorkspace(f, n.loc))

\* the last operation refused its path as a path traversal
RejectedAsTraversal ==
  IF IsValidation THEN last.res.kind = "PathTraversalDetected"
  ELSE IF last.op = "read_file"
  THEN ~last.res.success /\ last.res.error = "PathTraversalDetected"
  ELSE ~last.res.success /\ last.res.error = "Path traversal not allowed"

\* C28: the parent-directory rejection is structural on every path that
\* reaches the filesystem: a relative path none of whose components is
\* ".." and that does not leave the workspace is never rejected as path
\* traversal because its text contains two consecutive dots (a..a, ..a),
\* by validate_for_read, validate_for_write, read_file or write_file.
C28_Claim ==
  (last.op # "none" /\ DotsInName /\ NoEscape(last.pre)) => ~RejectedAsTraversal

---------------------------------------------------------------------------
(* The workspace root of read_file: the root specification *)

\* the directories the process may move to
WorkDirs == { cwd, <<"/", "o">>, <<"/", "w", "/", "a">> }

InitRoot ==
  /\ fs \in FSConfigs
  /\ arg_path \in PathStrings
  /\ arg_content = ""
  /\ last = NoOp
  /\ steps = 0
  /\ arg_name = <<>>
  /\ arg_input = InputNull
  /\ settings = SessionSettings
  /\ process_cwd = cwd
  /\ registry = with_builtins
  /\ SessionInit

\* the working directory of the process changes between two tool
\* executions; std::env::current_dir() returns the new one from then on
ChangeDir(d) ==
  /\ steps < MaxSteps
  /\ is_dir(fs, d)
  /\ d # process_cwd
  /\ process_cwd' = d
  /\ last' = [op |-> "chdir", res |-> NoOp.res, pre |-> fs]
  /\ steps' = steps + 1
  /\ UNCHANGED <<fs, arg_path, arg_content, arg_name, arg_input, settings, registry>>
  /\ UNCHANGED sessVars

\* execute_read_file: PathValidator::new() reads the working directory of
\* the process on every call (read_file.rs, lines 69-78)
ReadFileInProcess ==
  /\ steps < MaxSteps
  /\ last' = [op |-> "read_file",
              res |-> execute_read_file_at(fs, process_cwd, arg_path), pre |-> fs]
  /\ steps' = steps + 1
  /\ UNCHANGED <<fs, arg_path, arg_content, arg_name, arg_input, settings, process_cwd, registry>>
  /\ UNCHANGED sessVars

NextRoot == (\E d \in WorkDirs : ChangeDir(d)) \/ ReadFileInProcess

SpecRoot == InitRoot /\ [][NextRoot]_vars

\* C29: the workspace root against which file-tool paths are validated is
\* fixed for the lifetime of a session: it is the working directory of the
\* process at construction time, and a change of the working directory
\* between two tool executions does not change the root the later
\* execution uses.
C29_Claim ==
  last.op = "read_file" => last.res = execute_read_file_at(last.pre, cwd, arg_path)

---------------------------------------------------------------------------
(* ToolRegistry as a map: the tools specification *)

MaxRegistryCalls == 3    \* calls on one registry

\* the tools that may be registered: two types for each of three names
ToolTypes == {"builtin", "other"}
ToolPool ==
  { ToolOf(n, i) : n \in {read_file_name, write_file_name, nope_name},
                   i \in ToolTypes }

\* the registry as its constructor left it; seen holds the names
\* registered since
Constructed(op, m) == [op |-> op, res |-> <<>>, pre |-> m, seen |-> DOMAIN m]

InitTools ==
  /\ \/ registry = HashMap_new /\ last = Constructed("new", HashMap_new)
     \/ registry = with_builtins /\ last = Constructed("with_builtins", with_builtins)
  /\ fs = SessionFS
  /\ arg_path = <<>>
  /\ arg_content = ""
  /\ steps = 0
  /\ arg_name = <<>>
  /\ arg_input = InputNull
  /\ settings = SessionSettings
  /\ process_cwd = cwd
  /\ SessionInit

\* what a call on the registry leaves unchanged
ToolsFrame ==
  /\ steps' = steps + 1
  /\ UNCHANGED <<fs, arg_path, arg_content, arg_name, arg_input, settings, process_cwd>>
  /\ UNCHANGED sessVars

\* registry.register(tool)
Register(tool) ==
  /\ steps < MaxRegistryCalls
  /\ registry' = register(registry, tool)
  /\ last' = [op |-> "register", res |-> tool, pre |-> registry,
              seen |-> last.seen \cup {tool.name}]
  /\ ToolsFrame

\* registry.len()
RegistryLen ==
  /\ steps < MaxRegistryCalls
  /\ last' = [op |-> "len", res |-> len(registry), pre |-> registry, seen |-> last.seen]
  /\ UNCHANGED registry
  /\ ToolsFrame

\* registry.tool_names()
ToolNamesCall ==
  /\ steps < MaxRegistryCalls
  /\ \E q \in Orderings(DOMAIN registry) :
       last' = [op |-> "tool_names", res |-> tool_names(registry, q),
                pre |-> registry, seen |-> last.seen]
  /\ UNCHANGED registry
  /\ ToolsFrame

\* registry.definitions()
DefinitionsCall ==
  /\ steps < MaxRegistryCalls
  /\ \E q \in Orderings(DOMAIN registry) :
       last' = [op |-> "definitions", res |-> definitions(registry, q),
                pre |-> registry, seen |-> last.seen]
  /\ UNCHANGED registry
  /\ ToolsFrame

\* registry.execute(name, &Value::Null): the tool is looked up by name
ExecuteCall(name) ==
  /\ steps < MaxRegistryCalls
  /\ last' = [op |-> "execute",
              res |-> IF name \in DOMAIN registry THEN InvalidInput
                      ELSE UnknownTool(name),
              pre |-> registry, seen |-> last.seen]
  /\ UNCHANGED registry
  /\ ToolsFrame

NextTools ==
  \/ \E tool \in ToolPool : Register(tool)
  \/ RegistryLen
  \/ ToolNamesCall
  \/ DefinitionsCall
  \/ \E name \in {read_file_name, nope_name} : ExecuteCall(name)

SpecTools == InitTools /\ [][NextTools]_vars

\* the elements of a sequence
Range(q) == { q[i] : i \in 1..Len(q) }

\* C30: after any sequence of register calls the registry holds one tool
\* per distinct name (registering a name again replaces the earlier tool),
\* len() is the number of distinct names, tool_names() is exactly that
\* set, definitions() returns exactly one advertisement per registered
\* tool; with_builtins() yields exactly read_file and write_file; execute
\* and definitions never change the registry.
C30_RegistryByName ==
  /\ DOMAIN registry = last.seen
  /\ \A n \in DOMAIN registry : registry[n].name = n
  /\ last.op = "register" =>
       /\ registry[last.res.name] = last.res
       /\ \A n \in DOMAIN last.pre \ {last.res.name} : registry[n] = last.pre[n]
  /\ last.op = "len" => last.res = Cardinality(last.seen)
  /\ last.op = "tool_names" =>
       /\ Len(last.res) = Cardinality(last.seen)
       /\ Range(last.res) = last.seen
  /\ last.op = "definitions" =>
       /\ Len(last.res) = Cardinality(last.seen)
       /\ Range(last.res) = { definition(registry[n]) : n \in last.seen }
  /\ last.op = "with_builtins" =>
       /\ DOMAIN registry = {read_file_name, write_file_name}
       /\ registry[read_file_name] = ReadFileTool
       /\ registry[write_file_name] = WriteFileTool
  /\ last.op \in {"len", "tool_names", "definitions", "execute"} =>
       registry = last.pre

\* a name registered a second time with another tool, then advertised
C30_Witness ==
  /\ last.op = "definitions"
  /\ steps = 2
  /\ Cardinality(last.seen) = 2
  /\ registry[read_file_name] = ToolOf(read_file_name, "other")
  /\ definition(ToolOf(read_file_name, "other")) \in Range(last.res)

---------------------------------------------------------------------------
(* The roles of the history when no transport error occurs *)

\* the steps of a session in which every request is answered: each round
\* ends in a parsed response, a non-2xx status with a readable body or a
\* malformed body
NextAnswered ==
  \/ \E u \in UserTexts : SendMessage(u)
  \/ RespNon2xx(TRUE)
  \/ \E body \in MalformedBodies : RespMalformed(body)
  \/ \E content \in ResponseContents : RespParsed(content)
  \/ DispatchBlock
  \/ FinishRound
  \/ ClearHistory

SpecAnswered == Init /\ [][NextAnswered]_vars

\* the role the message at position i has when roles alternate from user
RoleAt(i) == IF i % 2 = 1 THEN "user" ELSE "assistant"

\* C31: starting from an empty history, after any sequence of
\* clear_history calls and send_message calls without transport error, the
\* roles in every Idle state alternate user, assistant, user, assistant,
\* ..., the first message being a user message and the last an assistant
\* message.
C31_RolesAlternate ==
  pc = "Idle" =>
    /\ \A i \in 1..Len(messages) : messages[i].role = RoleAt(i)
    /\ Len(messages) % 2 = 0

\* a turn asked for a tool and was rolled back in its second round
C31_Witness ==
  /\ pc = "Idle"
  /\ outcome \in {"non2xx", "malformed"}
  /\ round = 2
  /\ Len(messages) = 2
  /\ ToolUses(messages[2].content.blocks) # <<>>

---------------------------------------------------------------------------
(* The REPL (src/main.rs, handle_command and the loop of main) *)

MaxLines == 3    \* lines read by the REPL

\* the characters str::trim removes
Whitespace == {" ", "\t"}

RECURSIVE trim_start(_)
trim_start(t) ==
  IF t # <<>> /\ t[1] \in Whitespace THEN trim_start(Tail(t)) ELSE t

RECURSIVE trim_end(_)
trim_end(t) ==
  IF t # <<>> /\ t[Len(t)] \in Whitespace
  THEN trim_end(SubSeq(t, 1, Len(t) - 1)) ELSE t

\* str::trim
trim(t) == trim_end(trim_start(t))

\* input.starts_with('/')
starts_with_slash(t) == t # <<>> /\ t[1] = "/"

\* variant: a command that is not known ends the loop
handle_command_unknown_exits(cmd) ==
  Let(trim(cmd), LAMBDA c :
    IF c \in {<<"/", "c", "l", "e", "a", "r">>, <<"/", "c">>, <<"/", "t", "o", "o", "l", "s">>, <<"/", "t">>} THEN "clear"
    ELSE IF c \in {<<"/", "t", "o", "o", "l", "s">>, <<"/", "t">>} THEN "tools"
    ELSE IF c \in {<<"/", "h", "e", "l", "p">>, <<"/", "h">>, <<"/", "?">>} THEN "help"
    ELSE "exit")

\* handle_command: the arm of the match the command takes
handle_command(cmd) ==
  Let(trim(cmd), LAMBDA c :
    IF c \in {<<"/", "e", "x", "i", "t">>, <<"/", "q", "u", "i", "t">>, <<"/", "q">>} THEN "exit"
    ELSE IF c \in {<<"/", "c", "l", "e", "a", "r">>, <<"/", "c">>} THEN "clear"
    ELSE IF c \in {<<"/", "t", "o", "o", "l", "s">>, <<"/", "t">>} THEN "tools"
    ELSE IF c \in {<<"/", "h", "e", "l", "p">>, <<"/", "h">>, <<"/", "?">>} THEN "help"
    ELSE "unknown")

\* the lines typed: blank lines, every command, commands between blanks,
\* commands that are not known, and texts for the model
ReplLines ==
  { <<>>,
    <<" ">>,
    <<" ", "\t">>,
    <<"/", "e", "x", "i", "t">>,
    <<"/", "q", "u", "i", "t">>,
    <<"/", "q">>,
    <<"/", "c", "l", "e", "a", "r">>,
    <<"/", "c">>,
    <<"/", "t", "o", "o", "l", "s">>,
    <<"/", "t">>,
    <<"/", "h", "e", "l", "p">>,
    <<"/", "h">>,
    <<"/", "?">>,
    <<" ", "/", "c", " ">>,
    <<"\t", "/", "q">>,
    <<"/", "n", "o", "p", "e">>,
    <<"/", "c", " ", "x">>,
    <<"/">>,
    <<"/", "e", "x", "i", "t", "/">>,
    <<"u">>,
    <<" ", "u", " ">>,
    <<"u", "/", "c">> }

\* the responses of the model service in the REPL specification
ReplContents == { <<TextBlock>>, <<WriteBlock>> }

\* rl.readline returns a line (main.rs, lines 391-412)
ReplLine(l) ==
  /\ pc = "Idle"
  /\ steps < MaxLines
  /\ steps' = steps + 1
  /\ last' = [op |-> "line", res |-> l, pre |-> fs]
  /\ UNCHANGED <<fs, arg_path, arg_content, arg_name, arg_input, settings, process_cwd, registry>>
  /\ Let(trim(l), LAMBDA input :
       IF input = <<>> THEN UNCHANGED sessVars
       ELSE IF starts_with_slash(input)
       THEN IF handle_command(input) = "exit"
            THEN /\ pc' = "Exited"
                 /\ UNCHANGED <<client, messages, result, idx, tool_results,
                                has_tool_use, preHist, outcome, round, calls>>
            ELSE IF handle_command(input) = "clear" THEN clear_history
            ELSE UNCHANGED sessVars
       ELSE /\ calls < MaxCalls
            /\ push_user_message(input))

\* rl.readline returns an error (lines 414-427): a Ctrl-C goes on, the end
\* of input and every other error end the loop
ReplReadError(kind) ==
  /\ pc = "Idle"
  /\ steps < MaxLines
  /\ steps' = steps + 1
  /\ last' = [op |-> kind, res |-> <<>>, pre |-> fs]
  /\ pc' = IF kind = "Interrupted" THEN "Idle" ELSE "Exited"
  /\ UNCHANGED <<fs, arg_path, arg_content, arg_name, arg_input, settings, process_cwd, registry>>
  /\ UNCHANGED <<client, messages, result, idx, tool_results,
                 has_tool_use, preHist, outcome, round, calls>>

NextRepl ==
  \/ \E l \in ReplLines : ReplLine(l)
  \/ \E kind \in {"Interrupted", "Eof", "Other"} : ReplReadError(kind)
  \/ RespSendFails
  \/ \E b \in BOOLEAN : RespNon2xx(b)
  \/ RespBodyUnreadable
  \/ \E body \in MalformedBodies : RespMalformed(body)
  \/ \E content \in ReplContents : RespParsed(content)
  \/ DispatchBlock
  \/ FinishRound

SpecRepl == Init /\ [][NextRepl]_vars

\* the step reads a line
LineStep == pc = "Idle" /\ steps' = steps + 1 /\ last'.op = "line"

\* the line read by the step is empty after trimming, is a slash-command
BlankLine == trim(last'.res) = <<>>
SlashLine == trim(last'.res) # <<>> /\ trim(last'.res)[1] = "/"

\* the commands that empty the history, that end the loop, that print
ClearTexts == {<<"/", "c", "l", "e", "a", "r">>, <<"/", "c">>}
ExitTexts == {<<"/", "e", "x", "i", "t">>, <<"/", "q", "u", "i", "t">>, <<"/", "q">>}
PrintTexts == {<<"/", "t", "o", "o", "l", "s">>, <<"/", "t">>, <<"/", "h", "e", "l", "p">>, <<"/", "h">>, <<"/", "?">>}

\* send_message returned an error to the REPL
SendFailed ==
  /\ pc = "RequestInFlight"
  /\ outcome' \in {"send_failed", "body_unreadable", "non2xx_unreadable"}

\* C32: in the REPL a line that is empty after trimming or starts with "/"
\* never triggers a model-service call and never appends to the history;
\* among slash-commands only /clear and /c change the history (emptying
\* it), only /exit, /quit and /q end the loop, an unknown slash-command
\* changes no session state; a failed send_message does not end the REPL.
C32_ReplCommands ==
  [][ /\ (LineStep /\ (BlankLine \/ SlashLine)) =>
          /\ calls' = calls
          /\ pc' # "RequestInFlight"
          /\ messages' \in {messages, <<>>}
          /\ fs' = fs
      /\ (LineStep /\ BlankLine) => UNCHANGED sessVars
      /\ (LineStep /\ SlashLine) =>
          /\ messages' = IF trim(last'.res) \in ClearTexts THEN <<>> ELSE messages
          /\ pc' = IF trim(last'.res) \in ExitTexts THEN "Exited" ELSE "Idle"
          /\ trim(last'.res) \notin (ClearTexts \cup ExitTexts \cup PrintTexts) =>
               UNCHANGED sessVars
      /\ SendFailed => pc' = "Idle" ]_vars

\* after a turn, a command that is not known has been typed and the REPL
\* reads on with the history it had
C32_Witness ==
  /\ pc = "Idle"
  /\ last.op = "line"
  /\ last.res = <<"/", "c", " ", "x">>
  /\ messages # <<>>
  /\ steps < MaxLines

---------------------------------------------------------------------------
(* Failures of write_file (SpecFS) *)

\* C33: whenever WriteFileTool.execute returns a payload with
\* success=false the filesystem is unchanged: no file was written or
\* truncated and no directory was created, also when creating the parent
\* directories succeeds and the final write fails.
C33_Claim ==
  (last.op = "write_file" /\ ~last.res.success) => fs = last.pre

====
